---- MODULE Spec2Model ----
(***************************************************************************)
(* Model of Network.cpp (nuki_hub): transport selection at boot, the MQTT  *)
(* session state machine driven by Network::update()/reconnect(), the      *)
(* inbound dispatch router and the registration operations.                *)
(*                                                                         *)
(* Strings are sequences of one-character strings, so that path building   *)
(* and prefix matching are computed character by character as the code     *)
(* does.  Time is millis(): milliseconds since boot, an unsigned counter   *)
(* that wraps.                                                             *)
(***************************************************************************)
EXTENDS Integers, Sequences, FiniteSets, TLC

\* ------------------------------------------------------------------ bounds
\* the outer loop stops letting time pass between ticks beyond this uptime
MaxTime == 66000
\* at most this many topics are recorded by subscribe(prefix, path)
MaxTopics == 3
\* at most this many receivers are registered
MaxReceivers == 2
\* at most this many reconnect listeners are registered
MaxCallbacks == 2
\* at most this many handshakes are acknowledged by the broker in one boot
MaxConnects == 2
\* short waits between ticks are taken up to this uptime
MaxPause == 10200
\* at most this many topics are recorded where every operation is exercised
MaxOwnerTopics == 2
\* edges on the input pins are reported up to this uptime
MaxEdgeTime == 1200
\* the longest list of fragments handed to buildMqttPath on its own
MaxFragments == 3
\* the ticks of a long uptime are taken from this long before millis() wraps
WrapWindow == 62000
\* a handshake attempt whose wait loop does not poll is taken to last this
\* many milliseconds: the calls of lines 473-491 and 534-540 take time
AttemptTime == 1000

\* ------------------------------------------------------- program constants
\* millis() and the unsigned long deadlines are unsigned 32-bit counters; the
\* model's counter wraps at 2^30, the widest TLC's integers hold
\* together with the sums the program forms
ClockModulus == 2^30
ReconnectBackoff == 5000
HandshakeTimeout == 60000
QuietWindow == 2000
UptimeGrace == 60000
PollDelay == 50
SettleDelay == 100
RestartDelay == 200
\* uint8_t value[50] in onMqttDataReceivedCallback
ValueBufferSize == 50

\* the debounce interval of the GPIO stage of update(), in milliseconds
GPIO_DEBOUNCE_TIME == 200

\* unsigned arithmetic of millis() and the deadlines
Wrap(x) == x % ClockModulus

\* ------------------------------------------------------------------ strings
Slash == "/"

\* byte order of the characters used, as strcmp / String::operator< see them
Alphabet == <<"/", "0", "1", "2", "3", "4", "5", "6", "7", "8", "9", "S", "_",
              "a", "b", "c", "d", "e", "f", "g", "h", "i", "k", "l", "m",
              "n", "o", "p", "r", "s", "t", "u", "v", "w", "x", "y">>

CharCode(c) == CHOOSE i \in 1..Len(Alphabet) : Alphabet[i] = c

\* String::operator< on two keys of the std::map (strcmp order)
RECURSIVE StrLess(_, _)
StrLess(a, b) ==
    IF b = <<>> THEN FALSE
    ELSE IF a = <<>> THEN TRUE
    ELSE IF Head(a) = Head(b) THEN StrLess(Tail(a), Tail(b))
    ELSE CharCode(Head(a)) < CharCode(Head(b))

\* buildMqttPath writing no '/' where the path built so far ends with one
RECURSIVE BuildFromOneSeparator(_, _, _)
BuildFromOneSeparator(out, paths, pathCount) ==
    IF paths = <<>> THEN out
    ELSE LET path == Head(paths)
             sep  == IF /\ pathCount > 0
                        /\ (path = <<>> \/ Head(path) # Slash)
                        /\ (out = <<>> \/ out[Len(out)] # Slash)
                     THEN <<Slash>> ELSE <<>>
         IN  BuildFromOneSeparator(out \o sep \o path, Tail(paths),
                                   pathCount + 1)

\* buildMqttPath writing a '/' before every fragment after the first
RECURSIVE BuildFromAlwaysSlash(_, _, _)
BuildFromAlwaysSlash(out, paths, pathCount) ==
    IF paths = <<>> THEN out
    ELSE LET path == Head(paths)
             sep  == IF pathCount > 0 THEN <<Slash>> ELSE <<>>
         IN  BuildFromAlwaysSlash(out \o sep \o path, Tail(paths),
                                  pathCount + 1)

\* Network::buildMqttPath: a '/' is written before every fragment after the
\* first that does not itself start with '/'; the fragment is then copied
RECURSIVE BuildFrom(_, _, _)
BuildFrom(out, paths, pathCount) ==
    IF paths = <<>> THEN out
    ELSE LET path == Head(paths)
             sep  == IF pathCount > 0 /\ (path = <<>> \/ Head(path) # Slash)
                     THEN <<Slash>> ELSE <<>>
         IN  BuildFrom(out \o sep \o path, Tail(paths), pathCount + 1)

buildMqttPath(paths) == BuildFrom(<<>>, paths, 0)

\* topic suffixes and prefixes
mqtt_topic_gpio_prefix == <<"/", "g", "p", "i", "o">>
mqtt_topic_gpio_pin == <<"/", "p", "i", "n", "_">>
mqtt_topic_gpio_state == <<"/", "s", "t", "a", "t", "e">>
mqtt_topic_gpio_role == <<"/", "r", "o", "l", "e">>
mqtt_topic_mqtt_connection_state ==
    <<"/", "m", "q", "t", "t", "/", "c", "o", "n", "n", "e", "c", "t", "i", "o",
      "n", "S", "t", "a", "t", "e">>
mqtt_topic_network_device == <<"/", "d", "e", "v">>
mqtt_topic_info_nuki_hub_ip == <<"/", "i", "p">>
mqtt_topic_presence == <<"/", "p", "r", "e", "s", "e", "n", "c", "e">>
mqtt_topic_wifi_rssi == <<"/", "r", "s", "s", "i">>

lockPath == <<"n", "k">>
maintenancePathPrefix == <<"m", "n", "t">>
\* what setMqttPresencePath() was given
mqttPresencePrefix == <<"p", "r">>

\* Network::Network: the last-will topic is the lock path followed by the
\* connection state suffix
mqttConnectionStateTopic == lockPath \o mqtt_topic_mqtt_connection_state

OnlinePayload == <<"o", "n", "l", "i", "n", "e">>
LastWillPayload == <<"o", "f", "f", "l", "i", "n", "e">>
DeviceNamePayload == <<"d", "n">>
LocalIpPayload == <<"1", "0">>

\* std::to_string of a pin number below 100
Digits == <<"0", "1", "2", "3", "4", "5", "6", "7", "8", "9">>
PinToString(pin) ==
    IF pin < 10 THEN <<Digits[pin + 1]>>
    ELSE <<Digits[(pin \div 10) + 1], Digits[(pin % 10) + 1]>>

IsDigit(c) == \E i \in 1..10 : Digits[i] = c
DigitVal(c) == (CHOOSE i \in 1..10 : Digits[i] = c) - 1

\* std::atoi on the (at most two character) pinStr buffer: leading digits
\* are converted, conversion stops at the first non-digit or at the 0 byte
Atoi(s) ==
    IF s = <<>> \/ ~IsDigit(s[1]) THEN 0
    ELSE IF Len(s) = 1 \/ ~IsDigit(s[2]) THEN DigitVal(s[1])
    ELSE 10 * DigitVal(s[1]) + DigitVal(s[2])

\* ---------------------------------------------------------------- gpio
\* Gpio::pinConfiguration(): the configured pins and their roles
pinConfiguration == <<[pin |-> 2, role |-> "GeneralOutput"],
                      [pin |-> 13, role |-> "GeneralInputPullDown"],
                      [pin |-> 14, role |-> "GeneralInputPullUp"]>>
OutputPin == pinConfiguration[1].pin
InputPin == pinConfiguration[2].pin
\* the pins whose edges Gpio reports to the callback
InputPins ==
    {pinConfiguration[i].pin : i \in
        {j \in 1..Len(pinConfiguration) :
            pinConfiguration[j].role \in {"GeneralInputPullDown",
                                          "GeneralInputPullUp"}}}

getPinRole(pin) ==
    IF \E i \in 1..Len(pinConfiguration) : pinConfiguration[i].pin = pin
    THEN (CHOOSE e \in {pinConfiguration[i] : i \in 1..Len(pinConfiguration)} :
              e.pin = pin).role
    ELSE "Disabled"

GpioStatePath(pin) ==
    buildMqttPath(<<mqtt_topic_gpio_prefix,
                    mqtt_topic_gpio_pin \o PinToString(pin),
                    mqtt_topic_gpio_state>>)

\* ------------------------------------------------------------------- state
VARIABLES
    now,                    \* millis()
    pc,                     \* "run": the outer loop runs, "restarted": restartEsp
                            \* ran and the device reboots
    restartReason,          \* argument of the last restartEsp
    ret,                    \* what the update() just finished returned
    WiFi_fallbackDetect,    \* TRUE iff the RTC buffer holds "wifi_fallback"
    preferences,            \* the persisted configuration
    networkDeviceType,
    restartOnDisconnect,
    networkTimeout,
    mqttBrokerAddr,
    mqttUser,
    mqttEnabled,
    mqttConnectionState,
    nextReconnect,
    lastConnectedTs,
    firstConnect,
    connectReplyReceived,
    ignoreSubscriptionsTs,
    subscribedTopics,
    initTopics,
    mqttReceivers,
    reconnectedCallbacks,
    keepAliveCallback,      \* TRUE iff setKeepAliveCallback gave a callback
    devConnected,           \* _device->isConnected()
    devMqttConnected,       \* _device->mqttConnected()
    handlerInstalled,       \* _device->mqttOnMessage was given the handler
    calls,                  \* calls made on the device and the callbacks by
                            \* the tick in progress or just finished, in order
    lastMsg,                \* the inbound message just handled and what it
                            \* caused
    connects,               \* successful handshakes since boot
    quietOpenedAt,          \* millis() when the last handshake success opened
                            \* the quiet window
    tick,                   \* what the update() just finished found when it
                            \* was called
    sent,                   \* what _device->mqttPublish returns to the step
                            \* in progress or just finished: bytes sent, 0
                            \* when the transport fails the publish
    presenceCsv,            \* _presenceCsv: a null pointer or a string
    gpioTs,                 \* _gpioTs: pin -> millis() of its last edge, 0
                            \* when none is pending (as for a missing key)
    rssiPublishInterval,    \* _rssiPublishInterval
    lastRssi,               \* _lastRssi
    lastRssiTs              \* _lastRssiTs

vars == <<now, pc, restartReason, ret, WiFi_fallbackDetect, preferences,
          networkDeviceType, restartOnDisconnect, networkTimeout,
          mqttBrokerAddr, mqttUser, mqttEnabled, mqttConnectionState,
          nextReconnect,
          lastConnectedTs, firstConnect, connectReplyReceived,
          ignoreSubscriptionsTs, subscribedTopics, initTopics,
          mqttReceivers, reconnectedCallbacks, keepAliveCallback,
          devConnected, devMqttConnected, handlerInstalled, calls, lastMsg,
          connects, quietOpenedAt, tick, sent, presenceCsv, gpioTs,
          rssiPublishInterval, lastRssi, lastRssiTs>>

\* the state as one record, threaded through the operators that model the
\* member functions.  ts is the local of update() (millis() at the start of
\* the tick), timeout the local of reconnect() (end of the handshake wait),
\* success the return value of reconnect(), depth the number of calls of
\* reconnect() that have not returned, published the return value of
\* publishString(), level what digitalRead() returns, rssi what the calls of
\* _device->signalStrength() return, in order
S == [now |-> now, pc |-> pc, restartReason |-> restartReason, ret |-> ret,
      WiFi_fallbackDetect |-> WiFi_fallbackDetect, preferences |-> preferences,
      networkDeviceType |-> networkDeviceType,
      restartOnDisconnect |-> restartOnDisconnect,
      networkTimeout |-> networkTimeout, mqttBrokerAddr |-> mqttBrokerAddr,
      mqttUser |-> mqttUser,
      mqttEnabled |-> mqttEnabled, mqttConnectionState |-> mqttConnectionState,
      nextReconnect |-> nextReconnect, lastConnectedTs |-> lastConnectedTs,
      firstConnect |-> firstConnect,
      connectReplyReceived |-> connectReplyReceived,
      ignoreSubscriptionsTs |-> ignoreSubscriptionsTs, timeout |-> 0,
      ts |-> 0, subscribedTopics |-> subscribedTopics,
      initTopics |-> initTopics, mqttReceivers |-> mqttReceivers,
      reconnectedCallbacks |-> reconnectedCallbacks,
      keepAliveCallback |-> keepAliveCallback,
      devConnected |-> devConnected, devMqttConnected |-> devMqttConnected,
      handlerInstalled |-> handlerInstalled,
      calls |-> calls, lastMsg |-> lastMsg, connects |-> connects,
      quietOpenedAt |-> quietOpenedAt,
      tick |-> tick, sent |-> sent, presenceCsv |-> presenceCsv,
      gpioTs |-> gpioTs, rssiPublishInterval |-> rssiPublishInterval,
      lastRssi |-> lastRssi, lastRssiTs |-> lastRssiTs,
      success |-> FALSE, depth |-> 0,
      published |-> FALSE, level |-> 0, rssi |-> <<127, 127, 127>>]

Commit0(r) ==
    /\ now = r.now
    /\ pc = r.pc
    /\ restartReason = r.restartReason
    /\ ret = r.ret
    /\ WiFi_fallbackDetect = r.WiFi_fallbackDetect
    /\ preferences = r.preferences
    /\ networkDeviceType = r.networkDeviceType
    /\ restartOnDisconnect = r.restartOnDisconnect
    /\ networkTimeout = r.networkTimeout
    /\ mqttBrokerAddr = r.mqttBrokerAddr
    /\ mqttUser = r.mqttUser
    /\ mqttEnabled = r.mqttEnabled
    /\ mqttConnectionState = r.mqttConnectionState
    /\ nextReconnect = r.nextReconnect
    /\ lastConnectedTs = r.lastConnectedTs
    /\ firstConnect = r.firstConnect
    /\ connectReplyReceived = r.connectReplyReceived
    /\ ignoreSubscriptionsTs = r.ignoreSubscriptionsTs
    /\ subscribedTopics = r.subscribedTopics
    /\ initTopics = r.initTopics
    /\ mqttReceivers = r.mqttReceivers
    /\ reconnectedCallbacks = r.reconnectedCallbacks
    /\ keepAliveCallback = r.keepAliveCallback
    /\ devConnected = r.devConnected
    /\ devMqttConnected = r.devMqttConnected
    /\ handlerInstalled = r.handlerInstalled
    /\ calls = r.calls
    /\ lastMsg = r.lastMsg
    /\ connects = r.connects
    /\ quietOpenedAt = r.quietOpenedAt
    /\ tick = r.tick
    /\ sent = r.sent
    /\ presenceCsv = r.presenceCsv
    /\ gpioTs = r.gpioTs
    /\ rssiPublishInterval = r.rssiPublishInterval
    /\ lastRssi = r.lastRssi
    /\ lastRssiTs = r.lastRssiTs

Commit(r) ==
    /\ now' = r.now
    /\ pc' = r.pc
    /\ restartReason' = r.restartReason
    /\ ret' = r.ret
    /\ WiFi_fallbackDetect' = r.WiFi_fallbackDetect
    /\ preferences' = r.preferences
    /\ networkDeviceType' = r.networkDeviceType
    /\ restartOnDisconnect' = r.restartOnDisconnect
    /\ networkTimeout' = r.networkTimeout
    /\ mqttBrokerAddr' = r.mqttBrokerAddr
    /\ mqttUser' = r.mqttUser
    /\ mqttEnabled' = r.mqttEnabled
    /\ mqttConnectionState' = r.mqttConnectionState
    /\ nextReconnect' = r.nextReconnect
    /\ lastConnectedTs' = r.lastConnectedTs
    /\ firstConnect' = r.firstConnect
    /\ connectReplyReceived' = r.connectReplyReceived
    /\ ignoreSubscriptionsTs' = r.ignoreSubscriptionsTs
    /\ subscribedTopics' = r.subscribedTopics
    /\ initTopics' = r.initTopics
    /\ mqttReceivers' = r.mqttReceivers
    /\ reconnectedCallbacks' = r.reconnectedCallbacks
    /\ keepAliveCallback' = r.keepAliveCallback
    /\ devConnected' = r.devConnected
    /\ devMqttConnected' = r.devMqttConnected
    /\ handlerInstalled' = r.handlerInstalled
    /\ calls' = r.calls
    /\ lastMsg' = r.lastMsg
    /\ connects' = r.connects
    /\ quietOpenedAt' = r.quietOpenedAt
    /\ tick' = r.tick
    /\ sent' = r.sent
    /\ presenceCsv' = r.presenceCsv
    /\ gpioTs' = r.gpioTs
    /\ rssiPublishInterval' = r.rssiPublishInterval
    /\ lastRssi' = r.lastRssi
    /\ lastRssiTs' = r.lastRssiTs

\* one entry of calls: the operation, its topic or path, its payload or
\* reason, and millis(), mqttConnectionState, _ignoreSubscriptionsTs and the
\* number of running calls of reconnect() at the moment of the call
Call(s, op, a, v) ==
    [op |-> op, a |-> a, v |-> v, t |-> s.now, st |-> s.mqttConnectionState,
     quiet |-> s.ignoreSubscriptionsTs, depth |-> s.depth]

Log(s, op, a, v) == [s EXCEPT !.calls = Append(@, Call(s, op, a, v))]

\* delay(ms): millis() moves on
delay(s, ms) == [s EXCEPT !.now = Wrap(@ + ms)]

\* restartEsp(reason): does not return; the device reboots
restartEsp(s, reason) ==
    [Log(s, "restartEsp", <<>>, <<reason>>) EXCEPT
        !.pc = "restarted", !.restartReason = reason, !.ret = "none"]

\* _presenceCsv == nullptr
NullCsv == [null |-> TRUE, str |-> <<>>]

NoMsg == [topic |-> <<>>, payload |-> <<>>, raw |-> <<>>, at |-> 0,
          opened |-> 0, receivers |-> <<>>, wrote |-> <<>>]

\* no update() has just finished
NoTick == [ran |-> FALSE, ts |-> 0, devConnected |-> FALSE,
           devMqttConnected |-> FALSE, nextReconnect |-> 0,
           lastConnectedTs |-> 0, connects |-> 0]

\* update() is entered: what it finds
Enter(s) ==
    [s EXCEPT !.tick = [ran |-> TRUE, ts |-> s.now,
                        devConnected |-> s.devConnected,
                        devMqttConnected |-> s.devMqttConnected,
                        nextReconnect |-> s.nextReconnect,
                        lastConnectedTs |-> s.lastConnectedTs,
                        connects |-> s.connects]]

\* --------------------------------------------------------------- inputs
\* persisted values of preference_network_hardware
HardwareValues == 0..8
\* persisted values of preference_network_timeout (seconds)
TimeoutValues == {0, 30}
\* persisted values of preference_mqtt_broker
BrokerValues == {<<>>, <<"b">>}
\* persisted values of preference_mqtt_user
UserValues == {<<>>, <<"u">>}
\* time that passes between two ticks of the outer loop
IdleSteps == {30000, 44000}
\* a short time between two ticks
ShortSteps == {2500, 5000}
\* millis() when the constructor runs
BootDurations == {1000}
\* how a handshake goes: the broker's answer (the acknowledgement runs
\* onMqttConnect, a refusal runs onMqttDisconnect, "none" is no answer), the
\* pass of the wait loop whose pump delivers it, the time each pass spends in
\* _device->update() and the keep-alive callback on top of its delay(50), and
\* whether the session is lost again while the reconnect listeners run
QuickAck == [ev |-> "connack", pass |-> 1, pump |-> 0, dropped |-> FALSE]
DroppedAck == [ev |-> "connack", pass |-> 1, pump |-> 0, dropped |-> TRUE]
LateAck == [ev |-> "connack", pass |-> 2, pump |-> 29950, dropped |-> FALSE]
Refused == [ev |-> "refused", pass |-> 1, pump |-> 0, dropped |-> FALSE]
NoAnswer == [ev |-> "none", pass |-> 0, pump |-> 29950, dropped |-> FALSE]
FinalOutcomes == {QuickAck, LateAck, Refused, NoAnswer}
\* the handshakes of one reconnect() call, in order; the last entry also
\* answers any further handshake
HandshakeScripts == {<<o>> : o \in FinalOutcomes} \cup
                    {<<DroppedAck, o>> : o \in FinalOutcomes}
\* time _device->reconnect() blocks
ReconnectDurations == {0, 30000}
ReconnectStatus == {"Success", "Failure", "CriticalFailure"}
\* what the transport may report for a publish
SentValues == {0, 1}
\* what subscribe(prefix, path) and initTopic(prefix, path, value) are given
TopicPaths == {<<"/", "a">>, <<"b">>}
InitValues == {<<"0">>, <<"1">>}

\* ------------------------------------------------------------------- boot
\* Network::setupDevice, the switch on hardwareDetect
DeviceTypeOf(hardwareDetect) ==
    CASE hardwareDetect = 1 -> "WiFi"
      [] hardwareDetect = 2 -> "W5500"
      [] hardwareDetect = 3 -> "W5500"
      [] hardwareDetect = 4 -> "Olimex_LAN8720"
      [] hardwareDetect = 5 -> "WT32_LAN8720"
      [] hardwareDetect = 6 -> "M5STACK_PoESP32_Unit"
      [] hardwareDetect = 7 -> "LilyGO_T_ETH_POE"
      [] OTHER -> "WiFi"

\* a subscribe() that also subscribes at the broker when MQTT is connected
subscribeAtBroker(s, prefix, path) ==
    IF s.devMqttConnected
    THEN Log([s EXCEPT !.subscribedTopics =
                          Append(@, buildMqttPath(<<prefix, path>>))],
             "mqttSubscribe", buildMqttPath(<<prefix, path>>), <<>>)
    ELSE [s EXCEPT !.subscribedTopics =
                      Append(@, buildMqttPath(<<prefix, path>>))]

\* Network::subscribe(prefix, path): the built path is appended
subscribe(s, prefix, path) ==
    [s EXCEPT !.subscribedTopics = Append(@, buildMqttPath(<<prefix, path>>))]

\* Network::initialize, the loop over the pin configuration: the state
\* topic of every output pin is subscribed
RECURSIVE SubscribeOutputs(_, _)
SubscribeOutputs(s, pins) ==
    IF pins = <<>> THEN s
    ELSE SubscribeOutputs(
            IF Head(pins).role = "GeneralOutput"
            THEN subscribe(s, lockPath, GpioStatePath(Head(pins).pin))
            ELSE s,
            Tail(pins))

\* the members as the constructor leaves them; prefs and marker are what
\* survives a reset (flash and RTC memory), millis the uptime
Fresh(prefs, marker, millis) ==
    [now |-> millis, pc |-> "run", restartReason |-> "none", ret |-> "none",
     WiFi_fallbackDetect |-> marker, preferences |-> prefs,
     networkDeviceType |-> "none", restartOnDisconnect |-> FALSE,
     networkTimeout |-> 0, mqttBrokerAddr |-> <<>>, mqttUser |-> <<>>,
     mqttEnabled |-> TRUE,
     mqttConnectionState |-> 0, nextReconnect |-> 0, lastConnectedTs |-> 0,
     firstConnect |-> TRUE, connectReplyReceived |-> FALSE,
     ignoreSubscriptionsTs |-> 0, timeout |-> 0, ts |-> 0,
     subscribedTopics |-> <<>>, initTopics |-> <<>>, mqttReceivers |-> <<>>,
     reconnectedCallbacks |-> <<>>, keepAliveCallback |-> FALSE,
     devConnected |-> FALSE,
     devMqttConnected |-> FALSE, handlerInstalled |-> FALSE,
     calls |-> <<>>, lastMsg |-> NoMsg,
     connects |-> 0, quietOpenedAt |-> 0, tick |-> NoTick,
     sent |-> 1, presenceCsv |-> NullCsv,
     gpioTs |-> [pin \in InputPins |-> 0],
     rssiPublishInterval |-> 0, lastRssi |-> 127, lastRssiTs |-> 0,
     success |-> FALSE, depth |-> 0, published |-> FALSE, level |-> 0,
     rssi |-> <<127, 127, 127>>]

\* a faulty device selection, which C10 must reject: the fallback marker is
\* not looked at
setupDeviceNoFallback(s) ==
    LET hardwareDetect == IF s.preferences.network_hardware = 0 THEN 1
                          ELSE s.preferences.network_hardware
    IN  [s EXCEPT !.preferences.network_hardware = hardwareDetect,
                  !.networkDeviceType = DeviceTypeOf(hardwareDetect)]

\* a faulty device selection, which C11 must reject: the restart for a
\* disabled fallback leaves the marker in place
setupDeviceKeepsMarker(s) ==
    LET hardwareDetect == IF s.preferences.network_hardware = 0 THEN 1
                          ELSE s.preferences.network_hardware
        s1 == [s EXCEPT !.preferences.network_hardware = hardwareDetect]
    IN  IF s1.WiFi_fallbackDetect
        THEN IF s1.preferences.wifi_fallback_disabled
             THEN restartEsp(s1, "NetworkDeviceCriticalFailureNoWifiFallback")
             ELSE [s1 EXCEPT !.networkDeviceType = "WiFi"]
        ELSE [s1 EXCEPT !.networkDeviceType = DeviceTypeOf(hardwareDetect)]

\* a faulty device selection, which C12 must reject: the marker is cleared
\* by the boot that it sends to WiFi
setupDeviceConsumesMarker(s) ==
    LET hardwareDetect == IF s.preferences.network_hardware = 0 THEN 1
                          ELSE s.preferences.network_hardware
        s1 == [s EXCEPT !.preferences.network_hardware = hardwareDetect]
    IN  IF s1.WiFi_fallbackDetect
        THEN IF s1.preferences.wifi_fallback_disabled
             THEN restartEsp([s1 EXCEPT !.WiFi_fallbackDetect = FALSE],
                             "NetworkDeviceCriticalFailureNoWifiFallback")
             ELSE [s1 EXCEPT !.networkDeviceType = "WiFi",
                             !.WiFi_fallbackDetect = FALSE]
        ELSE [s1 EXCEPT !.networkDeviceType = DeviceTypeOf(hardwareDetect)]

\* Network::setupDevice
setupDevice(s) ==
    LET hardwareDetect == IF s.preferences.network_hardware = 0 THEN 1
                          ELSE s.preferences.network_hardware
        s1 == [s EXCEPT !.preferences.network_hardware = hardwareDetect]
    IN  IF s1.WiFi_fallbackDetect
        THEN IF s1.preferences.wifi_fallback_disabled
             THEN restartEsp([s1 EXCEPT !.WiFi_fallbackDetect = FALSE],
                             "NetworkDeviceCriticalFailureNoWifiFallback")
             ELSE [s1 EXCEPT !.networkDeviceType = "WiFi"]
        ELSE [s1 EXCEPT !.networkDeviceType = DeviceTypeOf(hardwareDetect)]

\* Network::initialize
initialize(s) ==
    LET nt == IF s.preferences.network_timeout = 0 THEN 0 - 1
              ELSE s.preferences.network_timeout
        ri == s.preferences.rssi_publish_interval * 1000
        s1 == [s EXCEPT !.restartOnDisconnect = s.preferences.restart_on_disconnect,
                        !.rssiPublishInterval = IF ri = 0 THEN 60 ELSE ri,
                        !.preferences.rssi_publish_interval =
                            IF ri = 0 THEN 60 ELSE @,
                        !.mqttBrokerAddr = s.preferences.mqtt_broker,
                        !.mqttUser = s.preferences.mqtt_user,
                        !.networkTimeout = nt,
                        !.preferences.network_timeout = nt]
    IN  SubscribeOutputs(s1, pinConfiguration)

\* constructor, then initialize() unless setupDevice restarted the device
BootUp(prefs, marker, millis) ==
    LET s == setupDevice(Fresh(prefs, marker, millis))
    IN  IF s.pc = "restarted" THEN s ELSE initialize(s)

Preferences ==
    [network_hardware : HardwareValues,
     wifi_fallback_disabled : BOOLEAN,
     network_timeout : TimeoutValues,
     restart_on_disconnect : BOOLEAN,
     mqtt_broker : BrokerValues,
     mqtt_user : UserValues,
     rssi_publish_interval : {-1, 0, 30}]

\* the configurations of the session specification: every watchdog
\* setting, with a broker, on one wired board
SessionPrefs ==
    {p \in Preferences : /\ p.network_hardware = 2
                         /\ ~p.wifi_fallback_disabled
                         /\ p.mqtt_broker # <<>>
                         /\ p.mqtt_user = <<>>
                         /\ p.rssi_publish_interval = -1}

\* the configurations of the boot specification: every hardware selection
\* and fallback setting, the watchdogs off
BootPrefs ==
    {p \in Preferences : /\ p.network_timeout = 0
                         /\ ~p.restart_on_disconnect
                         /\ p.mqtt_broker # <<>>
                         /\ p.mqtt_user = <<>>
                         /\ p.rssi_publish_interval = -1}

\* the configurations of the fallback specification: every hardware
\* selection, the fallback not disabled, the restart-on-disconnect watchdog
\* on
FallbackPrefs ==
    {p \in Preferences : /\ ~p.wifi_fallback_disabled
                         /\ p.network_timeout = 0
                         /\ p.restart_on_disconnect
                         /\ p.mqtt_broker # <<>>
                         /\ p.mqtt_user = <<>>
                         /\ p.rssi_publish_interval = -1}

\* the configurations of the backoff specification: with and without a
\* broker, the watchdogs off
BackoffPrefs ==
    {p \in Preferences : /\ p.network_hardware = 1
                         /\ ~p.wifi_fallback_disabled
                         /\ p.network_timeout = 0
                         /\ ~p.restart_on_disconnect
                         /\ p.mqtt_user # <<>>
                         /\ p.rssi_publish_interval = -1}

\* the configurations without a broker: every network timeout, the
\* restart-on-disconnect watchdog off
UnconfiguredPrefs ==
    {p \in Preferences : /\ p.network_hardware = 1
                         /\ ~p.wifi_fallback_disabled
                         /\ ~p.restart_on_disconnect
                         /\ p.mqtt_broker = <<>>
                         /\ p.mqtt_user # <<>>
                         /\ p.rssi_publish_interval = -1}

\* one configuration with a broker and credentials, the watchdogs off
PlainPrefs ==
    {p \in Preferences : /\ p.network_hardware = 1
                         /\ ~p.wifi_fallback_disabled
                         /\ p.network_timeout = 0
                         /\ ~p.restart_on_disconnect
                         /\ p.mqtt_broker # <<>>
                         /\ p.mqtt_user # <<>>
                         /\ p.rssi_publish_interval = -1}

\* power-on: the RTC_NOINIT buffer holds whatever the memory holds
InitOver(prefSet, markers) ==
    \E prefs \in prefSet, marker \in markers, millis \in BootDurations :
        Commit0(BootUp(prefs, marker, millis))

Init == InitOver(SessionPrefs, {FALSE})

\* the reboot that follows restartEsp: flash and RTC memory survive
Boot ==
    /\ pc = "restarted"
    /\ \E millis \in BootDurations :
          Commit(BootUp(preferences, WiFi_fallbackDetect, millis))

\* a std::multimap insert: an existing key keeps its entry and gets another
MapPutKeepsBoth(m, key, value) ==
    SelectSeq(m, LAMBDA e : StrLess(e.path, key)) \o
    <<[path |-> key, value |-> value]>> \o
    SelectSeq(m, LAMBDA e : ~StrLess(e.path, key))

\* ------------------------------------------------------------ registration
\* std::map<String, String>::operator[] followed by assignment: the entries
\* are kept in key order, an existing key keeps its place and gets the value
RECURSIVE MapPut(_, _, _)
MapPut(m, key, value) ==
    IF m = <<>> THEN <<[path |-> key, value |-> value]>>
    ELSE IF Head(m).path = key
         THEN <<[path |-> key, value |-> value]>> \o Tail(m)
    ELSE IF StrLess(key, Head(m).path)
         THEN <<[path |-> key, value |-> value]>> \o m
    ELSE <<Head(m)>> \o MapPut(Tail(m), key, value)

\* Network::initTopic
initTopic(s, prefix, path, value) ==
    [s EXCEPT !.initTopics = MapPut(@, buildMqttPath(<<prefix, path>>), value)]

\* Network::registerMqttReceiver; a receiver is identified by its number
registerMqttReceiver(s, receiver) ==
    [s EXCEPT !.mqttReceivers = Append(@, receiver)]

\* Network::addReconnectedCallback; a callback is identified by its number
addReconnectedCallback(s, callback) ==
    [s EXCEPT !.reconnectedCallbacks = Append(@, callback)]

\* Network::setKeepAliveCallback
setKeepAliveCallback(s) == [s EXCEPT !.keepAliveCallback = TRUE]

\* a disableAutoRestarts() that leaves the restart-on-disconnect watchdog on
disableAutoRestartsTimeoutOnly(s) == [s EXCEPT !.networkTimeout = 0]

\* Network::disableAutoRestarts
disableAutoRestarts(s) ==
    [s EXCEPT !.networkTimeout = 0, !.restartOnDisconnect = FALSE]

\* Network::disableMqtt
disableMqtt(s) ==
    [s EXCEPT !.mqttEnabled = FALSE, !.devMqttConnected = FALSE]

\* Network::clearWifiFallback
clearWifiFallback(s) ==
    [Log(s, "clearWifiFallback", <<>>, <<>>) EXCEPT !.WiFi_fallbackDetect = FALSE]

\* ----------------------------------------------------------------- publish
\* publishString giving up the session when the transport fails the publish
publishStringDropsSession(s, prefix, topic, value) ==
    [Log(s, "mqttPublish", buildMqttPath(<<prefix, topic>>), value)
        EXCEPT !.published = s.sent > 0,
               !.mqttConnectionState = IF s.sent > 0 THEN @ ELSE 0]

\* _device->mqttPublish(path, MQTT_QOS_LEVEL, true, value): every publish
\* of the file is retained and at the one QoS level
\* Network::publishString: one publish at the built path; true iff the
\* transport reports more than 0 bytes
publishString(s, prefix, topic, value) ==
    [Log(s, "mqttPublish", buildMqttPath(<<prefix, topic>>), value)
        EXCEPT !.published = s.sent > 0]

\* itoa(value, str, 10): a minus sign for a negative value, then the
\* decimal digits of the magnitude, the most significant first
RECURSIVE utoa(_)
utoa(value) ==
    IF value < 10 THEN <<Digits[value + 1]>>
    ELSE utoa(value \div 10) \o <<Digits[(value % 10) + 1]>>

\* itoa leaving out the sign
itoaMagnitude(value) == utoa(IF value < 0 THEN -value ELSE value)

itoa(value) == IF value < 0 THEN <<"-">> \o utoa(-value) ELSE utoa(value)

\* Network::publishInt: the result of the transport is dropped
publishInt(s, prefix, topic, value) ==
    Log(s, "mqttPublish", buildMqttPath(<<prefix, topic>>), itoa(value))

\* Network::publishBool: the result of the transport is dropped
publishBool(s, prefix, topic, value) ==
    Log(s, "mqttPublish", buildMqttPath(<<prefix, topic>>),
        IF value THEN <<"1">> ELSE <<"0">>)

\* -------------------------------------------------------------- reconnect
\* a faulty replay, which C1 must reject: a topic already subscribed in this
\* handshake is skipped
RECURSIVE ReplayDistinctSubscriptions(_, _)
ReplayDistinctSubscriptions(s, topics) ==
    IF topics = <<>> THEN s
    ELSE LET last == Len(s.calls)
             since == CHOOSE i \in 1..last :
                         /\ s.calls[i].op = "mqttOnMessage"
                         /\ \A j \in (i + 1)..last :
                               s.calls[j].op # "mqttOnMessage"
             done == \E j \in since..last :
                         /\ s.calls[j].op = "mqttSubscribe"
                         /\ s.calls[j].a = Head(topics)
         IN  ReplayDistinctSubscriptions(
                IF done THEN s ELSE Log(s, "mqttSubscribe", Head(topics), <<>>),
                Tail(topics))

\* reconnect(), lines 511-514: the recorded topics are subscribed in order
RECURSIVE ReplaySubscriptions(_, _)
ReplaySubscriptions(s, topics) ==
    IF topics = <<>> THEN s
    ELSE ReplaySubscriptions(Log(s, "mqttSubscribe", Head(topics), <<>>),
                             Tail(topics))

\* reconnect(), lines 519-522: every entry of the map is published
RECURSIVE PublishInitTopics(_, _)
PublishInitTopics(s, entries) ==
    IF entries = <<>> THEN s
    ELSE PublishInitTopics(
            Log(s, "mqttPublish", Head(entries).path, Head(entries).value),
            Tail(entries))

\* a faulty first-connect block, which C2 must reject: the block runs on
\* every handshake success
EveryConnectReplay(s) ==
    LET s1 == [s EXCEPT !.firstConnect = FALSE]
        s2 == publishString(s1, maintenancePathPrefix,
                            mqtt_topic_network_device, DeviceNamePayload)
    IN  PublishInitTopics(s2, s2.initTopics)

\* reconnect(), lines 515-523
FirstConnectReplay(s) ==
    IF s.firstConnect
    THEN LET s1 == [s EXCEPT !.firstConnect = FALSE]
             s2 == publishString(s1, maintenancePathPrefix,
                                 mqtt_topic_network_device, DeviceNamePayload)
         IN  PublishInitTopics(s2, s2.initTopics)
    ELSE s

\* a faulty listener loop, which C14 must reject: the listeners run in the
\* reverse of the registration order
RECURSIVE RunReconnectedCallbacksReversed(_, _)
RunReconnectedCallbacksReversed(s, cbs) ==
    IF cbs = <<>> THEN s
    ELSE RunReconnectedCallbacksReversed(
            Log(s, "callback", <<cbs[Len(cbs)]>>, <<>>),
            SubSeq(cbs, 1, Len(cbs) - 1))

\* reconnect(), lines 529-532: the listeners run in registration order
RECURSIVE RunReconnectedCallbacks(_, _)
RunReconnectedCallbacks(s, cbs) ==
    IF cbs = <<>> THEN s
    ELSE RunReconnectedCallbacks(Log(s, "callback", <<Head(cbs)>>, <<>>),
                                 Tail(cbs))

\* a faulty success branch, which C13 must reject: the online state and the
\* address are published before the subscriptions are replayed
OnHandshakeSuccessOnlineFirst(s) ==
    LET s1 == delay([s EXCEPT !.mqttConnectionState = 1], SettleDelay)
        s2 == [s1 EXCEPT !.ignoreSubscriptionsTs = Wrap(s1.now + QuietWindow),
                         !.handlerInstalled = TRUE,
                         !.connects = @ + 1,
                         !.quietOpenedAt = s1.now]
        s3 == Log(s2, "mqttOnMessage", <<>>, <<>>)
        s4 == publishString(s3, maintenancePathPrefix,
                            mqtt_topic_mqtt_connection_state, OnlinePayload)
        s5 == publishString(s4, maintenancePathPrefix,
                            mqtt_topic_info_nuki_hub_ip, LocalIpPayload)
        s6 == ReplaySubscriptions(s5, s5.subscribedTopics)
        s7 == FirstConnectReplay(s6)
        s8 == [s7 EXCEPT !.mqttConnectionState = 2]
    IN  RunReconnectedCallbacks(s8, s8.reconnectedCallbacks)

\* reconnect(), lines 505-532: the handshake succeeded
OnHandshakeSuccess(s) ==
    LET s1 == delay([s EXCEPT !.mqttConnectionState = 1], SettleDelay)
        s2 == [s1 EXCEPT !.ignoreSubscriptionsTs = Wrap(s1.now + QuietWindow),
                         !.handlerInstalled = TRUE,
                         !.connects = @ + 1,
                         !.quietOpenedAt = s1.now]
        s3 == Log(s2, "mqttOnMessage", <<>>, <<>>)
        s4 == ReplaySubscriptions(s3, s3.subscribedTopics)
        s5 == FirstConnectReplay(s4)
        s6 == publishString(s5, maintenancePathPrefix,
                            mqtt_topic_mqtt_connection_state, OnlinePayload)
        s7 == publishString(s6, maintenancePathPrefix,
                            mqtt_topic_info_nuki_hub_ip, LocalIpPayload)
        s8 == [s7 EXCEPT !.mqttConnectionState = 2]
    IN  RunReconnectedCallbacks(s8, s8.reconnectedCallbacks)

\* reconnect(), lines 536-540: the handshake failed or timed out
OnHandshakeFailure(s) ==
    LET s1 == Log(s, "printError", <<>>, <<>>)
        s2 == [s1 EXCEPT !.mqttConnectionState = 0,
                         !.nextReconnect = Wrap(s1.now + ReconnectBackoff)]
    IN  [Log(s2, "mqttDisconnect", <<>>, <<"force">>) EXCEPT
            !.devMqttConnected = FALSE]

\* reconnect(), lines 473-491: the connect request is sent and the wait begins
StartHandshake(s) ==
    LET s1 == [s EXCEPT !.connectReplyReceived = FALSE]
        s1c == IF s1.mqttUser = <<>> THEN s1
               ELSE Log(s1, "mqttSetCredentials", <<>>, s1.mqttUser)
        s2 == Log(s1c, "setWill", mqttConnectionStateTopic, LastWillPayload)
        s3 == Log(s2, "mqttSetServer", <<>>, s2.mqttBrokerAddr)
        s4 == Log(s3, "mqttConnect", <<>>, <<>>)
    IN  [s4 EXCEPT !.timeout = Wrap(s4.now + HandshakeTimeout)]

\* Network::onMqttConnect
onMqttConnect(s) ==
    [Log(s, "onMqttConnect", <<>>, <<>>) EXCEPT !.connectReplyReceived = TRUE]

\* a faulty disconnect callback, which C16 must reject: it resets the
\* connection state
onMqttDisconnectResetsState(s) ==
    [Log(s, "onMqttDisconnect", <<>>, <<>>) EXCEPT
        !.connectReplyReceived = TRUE, !.mqttConnectionState = 0]

\* a faulty disconnect callback, which C18 must reject: it starts a
\* reconnect() of its own
onMqttDisconnectReconnects(s) ==
    LET s1 == Log(s, "onMqttDisconnect", <<>>, <<>>)
        s2 == Log([s1 EXCEPT !.depth = @ + 1], "Network::reconnect", <<>>, <<>>)
    IN  [s2 EXCEPT !.connectReplyReceived = TRUE, !.depth = @ - 1]

\* Network::onMqttDisconnect
onMqttDisconnect(s) ==
    [Log(s, "onMqttDisconnect", <<>>, <<>>) EXCEPT !.connectReplyReceived = TRUE]

\* reconnect(), lines 493-501: one pass of the wait loop.  ev is what the
\* pumped transport reports in this pass
WaitLoopPass(s, ev, pump) ==
    LET s1 == Log(delay(s, PollDelay + pump), "update", <<>>, <<>>)
        s2 == CASE ev = "connack" ->
                     onMqttConnect([s1 EXCEPT !.devConnected = TRUE,
                                              !.devMqttConnected = TRUE])
                [] ev = "refused" -> onMqttDisconnect(s1)
                [] OTHER -> s1
    IN  IF s2.keepAliveCallback THEN Log(s2, "keepAlive", <<>>, <<>>) ELSE s2

\* a wait loop that polls once more when the time is up
WaitGoesOnAtTimeout(s) == ~s.connectReplyReceived /\ s.now <= s.timeout

\* reconnect(), line 493: the wait loop goes on
WaitGoesOn(s) == ~s.connectReplyReceived /\ s.now < s.timeout

\* reconnect(), lines 493-501: the wait loop, k counts its passes
RECURSIVE WaitLoop(_, _, _)
WaitLoop(s, o, k) ==
    IF WaitGoesOn(s)
    THEN WaitLoop(WaitLoopPass(s, IF k = o.pass THEN o.ev ELSE "none", o.pump),
                  o, k + 1)
    ELSE s

\* reconnect(), lines 503-541: what the end of the wait leads to
AfterWait(s, dropped) ==
    IF s.devMqttConnected
    THEN LET c == OnHandshakeSuccess(s)
         IN  IF dropped
             THEN onMqttDisconnect([c EXCEPT !.devMqttConnected = FALSE])
             ELSE c
    ELSE OnHandshakeFailure(s)

\* a retry gate that waits twice the backoff after a failure
MayAttemptAfterTwoBackoffs(s) ==
    /\ ~s.devMqttConnected
    /\ s.now > s.nextReconnect
    /\ s.nextReconnect > 0 => s.now > s.nextReconnect + ReconnectBackoff

\* a faulty retry gate, which C5 must reject: an attempt is let through at
\* the deadline itself
MayAttemptAtDeadline(s) == ~s.devMqttConnected /\ s.now >= s.nextReconnect

\* the retry gate of reconnect(), line 464
MayAttempt(s) == ~s.devMqttConnected /\ s.now > s.nextReconnect

\* reconnect(), the while loop at line 464.  Time passes in every
\* iteration: in the polls of the wait loop or, when it does not poll, in
\* the calls around it
RECURSIVE ReconnectLoop(_, _)
ReconnectLoop(s, script) ==
    IF MayAttempt(s)
    THEN IF s.mqttBrokerAddr = <<>>
         THEN [s EXCEPT !.nextReconnect = Wrap(s.now + ReconnectBackoff),
                        !.success = FALSE]
         ELSE LET o == Head(script)
                  w0 == WaitLoop(StartHandshake(s), o, 1)
                  w == IF w0.now = s.now THEN delay(w0, AttemptTime) ELSE w0
              IN  ReconnectLoop(AfterWait(w, o.dropped),
                                IF Len(script) > 1 THEN Tail(script) ELSE script)
    ELSE [s EXCEPT !.success = (s.mqttConnectionState > 0)]

\* a faulty reconnect(), which C4 must reject: the broker address is looked
\* at before the retry gate
reconnectBrokerCheckFirst(s, script) ==
    LET s1 == Log([s EXCEPT !.depth = @ + 1], "Network::reconnect", <<>>, <<>>)
        s2 == [s1 EXCEPT !.mqttConnectionState = 0]
        r == IF s.mqttBrokerAddr = <<>>
             THEN [s2 EXCEPT !.nextReconnect = Wrap(s.now + ReconnectBackoff),
                             !.success = FALSE]
             ELSE ReconnectLoop(s2, script)
    IN  [r EXCEPT !.depth = @ - 1]

\* Network::reconnect.  The entry is recorded in calls, and depth counts the
\* calls of reconnect() that are running
reconnect(s, script) ==
    LET s1 == Log([s EXCEPT !.depth = @ + 1], "Network::reconnect", <<>>, <<>>)
        r == ReconnectLoop([s1 EXCEPT !.mqttConnectionState = 0], script)
    IN  [r EXCEPT !.depth = @ - 1]

\* ------------------------------------------------------------------ update
\* a faulty transport stage, which C9 must reject: the transport is asked
\* to reconnect before the restart-on-disconnect watchdog is looked at
TransportStageReconnectFirst(s, rs, dur) ==
    LET s1 == delay(Log(s, "reconnect", <<>>, <<rs>>), dur)
    IN  IF s.restartOnDisconnect /\ s.now > UptimeGrace
        THEN restartEsp(s1, "RestartOnDisconnectWatchdog")
        ELSE CASE rs = "CriticalFailure" ->
                    restartEsp(delay([s1 EXCEPT !.WiFi_fallbackDetect = TRUE],
                                     RestartDelay),
                               "NetworkDeviceCriticalFailure")
               [] rs = "Success" ->
                    [s1 EXCEPT !.WiFi_fallbackDetect = FALSE,
                               !.devConnected = TRUE]
               [] OTHER -> s1

\* update(), lines 275-302: the transport is down.  rs is what
\* _device->reconnect() returns and dur the time it blocks
TransportStage(s, rs, dur) ==
    IF s.restartOnDisconnect /\ s.now > UptimeGrace
    THEN restartEsp(s, "RestartOnDisconnectWatchdog")
    ELSE LET s1 == delay(Log(s, "reconnect", <<>>, <<rs>>), dur)
         IN  CASE rs = "CriticalFailure" ->
                    restartEsp(delay([s1 EXCEPT !.WiFi_fallbackDetect = TRUE],
                                     RestartDelay),
                               "NetworkDeviceCriticalFailure")
               [] rs = "Success" ->
                    [s1 EXCEPT !.WiFi_fallbackDetect = FALSE,
                               !.devConnected = TRUE]
               [] OTHER -> s1

\* a faulty watchdog, which C7 must reject: the time is taken when the
\* check is made, not when the tick began
NetworkTimeoutReachedByNow(s) ==
    /\ s.networkTimeout > 0
    /\ Wrap(s.now - s.lastConnectedTs) > Wrap(s.networkTimeout * 1000)
    /\ s.now > UptimeGrace

\* a faulty watchdog, which C8 must reject: no grace period after boot
NetworkTimeoutReachedNoGrace(s) ==
    /\ s.networkTimeout > 0
    /\ Wrap(s.ts - s.lastConnectedTs) > Wrap(s.networkTimeout * 1000)

\* update(), line 306: the network timeout watchdog
NetworkTimeoutReached(s) ==
    /\ s.networkTimeout > 0
    /\ Wrap(s.ts - s.lastConnectedTs) > Wrap(s.networkTimeout * 1000)
    /\ s.ts > UptimeGrace

\* the GPIO stage of update() publishing only after more than the interval
RECURSIVE DebouncePinsLate(_, _)
DebouncePinsLate(s, pins) ==
    IF pins = {} THEN s
    ELSE LET pin == CHOOSE q \in pins : \A o \in pins : q <= o
             ts  == s.gpioTs[pin]
             s1  == IF ts # 0 /\ Wrap(s.now - ts) > GPIO_DEBOUNCE_TIME
                    THEN publishInt([s EXCEPT !.gpioTs[pin] = 0], lockPath,
                                    GpioStatePath(pin), s.level)
                    ELSE s
         IN  DebouncePinsLate(s1, pins \ {pin})

\* update(), lines 393-411: every pin of _gpioTs in key order.  A pin whose
\* timestamp is not 0 and lies GPIO_DEBOUNCE_TIME or more before millis()
\* gets the timestamp 0 and its level published
RECURSIVE DebouncePins(_, _)
DebouncePins(s, pins) ==
    IF pins = {} THEN s
    ELSE LET pin == CHOOSE q \in pins : \A o \in pins : q <= o
             ts  == s.gpioTs[pin]
             s1  == IF ts # 0 /\ Wrap(s.now - ts) >= GPIO_DEBOUNCE_TIME
                    THEN publishInt([s EXCEPT !.gpioTs[pin] = 0], lockPath,
                                    GpioStatePath(pin), s.level)
                    ELSE s
         IN  DebouncePins(s1, pins \ {pin})

\* update(), lines 333-343: the RSSI stage.  _device->signalStrength() is
\* called for the test against 127, again for the value that is compared
\* with _lastRssi and stored, and a third time for the value published
RssiStage(s) ==
    IF /\ s.rssi[1] # 127
       /\ s.rssiPublishInterval > 0
       /\ Wrap(s.ts - s.lastRssiTs) > s.rssiPublishInterval
    THEN LET s1 == [s EXCEPT !.lastRssiTs = s.ts]
             rssi == s.rssi[2]
         IN  IF rssi # s1.lastRssi
             THEN [publishInt(s1, maintenancePathPrefix, mqtt_topic_wifi_rssi,
                              s.rssi[3])
                      EXCEPT !.lastRssi = rssi]
             ELSE s1
    ELSE s

\* the tail of update() keeping a presence string whose publish failed
UpdateTailKeepsFailedPresence(s) ==
    LET s1 == [s EXCEPT !.lastConnectedTs = s.ts]
        s2 == IF ~s1.presenceCsv.null /\ Len(s1.presenceCsv.str) > 0
              THEN LET sp == publishString(s1, mqttPresencePrefix,
                                           mqtt_topic_presence,
                                           s1.presenceCsv.str)
                   IN  IF sp.published
                       THEN [sp EXCEPT !.presenceCsv = NullCsv]
                       ELSE Log(sp, "Log->println", <<>>, s1.presenceCsv.str)
              ELSE s1
        s3 == RssiStage(s2)
    IN  [DebouncePins(s3, DOMAIN s3.gpioTs) EXCEPT !.ret = "true"]

\* update(), from line 320: the tick with MQTT connected.  A staged presence
\* string that is not empty is published, a failure is logged, and the slot
\* is set to null either way (322-331); then the RSSI stage and the GPIO
\* stage
UpdateTail(s) ==
    LET s1 == [s EXCEPT !.lastConnectedTs = s.ts]
        s2 == IF ~s1.presenceCsv.null /\ Len(s1.presenceCsv.str) > 0
              THEN LET sp == publishString(s1, mqttPresencePrefix,
                                           mqtt_topic_presence,
                                           s1.presenceCsv.str)
                       sl == IF sp.published THEN sp
                             ELSE Log(sp, "Log->println", <<>>,
                                      s1.presenceCsv.str)
                   IN  [sl EXCEPT !.presenceCsv = NullCsv]
              ELSE s1
        s3 == RssiStage(s2)
    IN  [DebouncePins(s3, DOMAIN s3.gpioTs) EXCEPT !.ret = "true"]

\* a faulty MQTT stage: the timeout is cancelled softly, the tick gives up
\* and the timeout starts again
MqttStageSoftCancel(s, script) ==
    IF s.devMqttConnected THEN UpdateTail(s)
    ELSE IF NetworkTimeoutReached(s)
         THEN [s EXCEPT !.lastConnectedTs = s.ts, !.ret = "false"]
    ELSE LET r == reconnect(s, script)
         IN  IF r.success THEN UpdateTail(r) ELSE [r EXCEPT !.ret = "false"]

\* an MQTT stage that stamps the last-connected time in a tick whose
\* reconnect() failed
MqttStageStampsFailure(s, script) ==
    IF s.devMqttConnected THEN UpdateTail(s)
    ELSE IF NetworkTimeoutReached(s)
         THEN restartEsp(delay(s, RestartDelay), "NetworkTimeoutWatchdog")
    ELSE LET r == reconnect(s, script)
         IN  IF r.success THEN UpdateTail(r)
             ELSE [r EXCEPT !.ret = "false", !.lastConnectedTs = s.ts]

\* update(), lines 304-320
MqttStage(s, script) ==
    IF s.devMqttConnected THEN UpdateTail(s)
    ELSE IF NetworkTimeoutReached(s)
         THEN restartEsp(delay(s, RestartDelay), "NetworkTimeoutWatchdog")
    ELSE LET r == reconnect(s, script)
         IN  IF r.success THEN UpdateTail(r) ELSE [r EXCEPT !.ret = "false"]

\* an update() that looks at the transport before it looks at the MQTT
\* switch
updateTransportFirst(s, rs, dur, script) ==
    LET s0 == Log([s EXCEPT !.ts = s.now], "update", <<>>, <<>>)
        s1 == IF ~s0.devConnected THEN TransportStage(s0, rs, dur) ELSE s0
    IN  IF s1.pc = "restarted" THEN s1
        ELSE IF ~s1.mqttEnabled THEN [s1 EXCEPT !.ret = "true"]
        ELSE MqttStage(s1, script)

\* Network::update
update(s, rs, dur, script) ==
    LET s0 == Log([s EXCEPT !.ts = s.now], "update", <<>>, <<>>)
    IN  IF ~s0.mqttEnabled THEN [s0 EXCEPT !.ret = "true"]
        ELSE LET s1 == IF ~s0.devConnected THEN TransportStage(s0, rs, dur)
                       ELSE s0
             IN  IF s1.pc = "restarted" THEN s1 ELSE MqttStage(s1, script)

\* ------------------------------------------------------- inbound dispatch
\* topic[i] of the C string: the byte at index i (from 0), 0 at its end
CharAt(topic, i) == IF i < Len(topic) THEN topic[i + 1] ELSE "NUL"

\* strncmp(a, b, n) == 0
StrNEqual(a, b, n) == \A i \in 0..(n - 1) : CharAt(a, i) = CharAt(b, i)

\* the C string held by a char buffer: the bytes before the first 0
CStr(buf) ==
    IF \E i \in 1..Len(buf) : buf[i] = "NUL"
    THEN SubSeq(buf, 1, (CHOOSE i \in 1..Len(buf) :
                            buf[i] = "NUL" /\ \A j \in 1..(i - 1) : buf[j] # "NUL") - 1)
    ELSE buf

\* Network::parseGpioTopics; wrote records the digitalWrite
parseGpioTopics(s, topic, payload) ==
    LET gpioPath == buildMqttPath(<<lockPath, mqtt_topic_gpio_prefix,
                                    mqtt_topic_gpio_pin>>)
        gpioLen == Len(gpioPath)
        pinStr == <<CharAt(topic, gpioLen)>> \o
                  (IF CharAt(topic, gpioLen + 1) # Slash
                   THEN <<CharAt(topic, gpioLen + 1)>> ELSE <<>>)
        pin == Atoi(CStr(pinStr))
        pinState == IF payload = <<"1">> THEN "HIGH" ELSE "LOW"
    IN  IF StrNEqual(gpioPath, topic, gpioLen)
           /\ getPinRole(pin) = "GeneralOutput"
        THEN [s EXCEPT !.lastMsg.wrote = <<[pin |-> pin, level |-> pinState]>>]
        ELSE s

\* the quiet window check of onMqttDataReceived, line 610
InQuietWindow(s) == s.now < s.ignoreSubscriptionsTs

\* a faulty delivery, which C19 must reject: the receiver registered last
\* is served first
RECURSIVE DeliverLastFirst(_, _, _)
DeliverLastFirst(s, receivers, index) ==
    IF receivers = <<>> THEN s
    ELSE DeliverLastFirst(
            [s EXCEPT !.lastMsg.receivers =
                Append(@, [receiver |-> receivers[Len(receivers)],
                           length |-> index])],
            SubSeq(receivers, 1, Len(receivers) - 1), index)

\* onMqttDataReceived, lines 615-618: every receiver gets the message
RECURSIVE Deliver(_, _, _)
Deliver(s, receivers, index) ==
    IF receivers = <<>> THEN s
    ELSE Deliver([s EXCEPT !.lastMsg.receivers =
                     Append(@, [receiver |-> Head(receivers), length |-> index])],
                 Tail(receivers), index)

\* a faulty router, which C3 must reject: the quiet window is looked at
\* before the GPIO topics are parsed
onMqttDataReceivedQuietFirst(s, topic, payload, index) ==
    LET s0 == [s EXCEPT !.lastMsg = [topic |-> topic, payload |-> payload,
                                     raw |-> <<>>, at |-> s.now,
                                     opened |-> s.quietOpenedAt,
                                     receivers |-> <<>>, wrote |-> <<>>]]
    IN  IF s0.now < s0.ignoreSubscriptionsTs THEN s0
        ELSE LET s1 == parseGpioTopics(s0, topic, payload)
             IN  Deliver(s1, s1.mqttReceivers, index)

\* Network::onMqttDataReceived
onMqttDataReceived(s, topic, payload, index) ==
    LET s0 == [s EXCEPT !.lastMsg = [topic |-> topic, payload |-> payload,
                                     raw |-> <<>>, at |-> s.now,
                                     opened |-> s.quietOpenedAt,
                                     receivers |-> <<>>, wrote |-> <<>>]]
        s1 == parseGpioTopics(s0, topic, payload)
    IN  IF InQuietWindow(s1) THEN s1
        ELSE Deliver(s1, s1.mqttReceivers, index)

\* Network::onMqttDataReceivedCallback: the first min(len, 49) bytes of the
\* payload are copied into a zeroed buffer of 50 bytes, which is handed on
\* together with len, index and total.  raw keeps what the transport gave
onMqttDataReceivedCallback(s, topic, payload, len, index) ==
    LET l == IF len < ValueBufferSize - 1 THEN len ELSE ValueBufferSize - 1
        value == SubSeq(payload, 1, l)
        r == onMqttDataReceived(s, topic, value, index)
    IN  [r EXCEPT !.lastMsg.raw = SubSeq(payload, 1, len)]

\* ----------------------------------------------------------------- actions
\* calls, ret, lastMsg and tick describe the step just taken: every step starts
\* from a clean record
Forget(s) ==
    [s EXCEPT !.calls = <<>>, !.ret = "none", !.lastMsg = NoMsg,
              !.tick = NoTick, !.sent = 1]

\* inbound messages the broker may send
MsgTopics == {buildMqttPath(<<lockPath, GpioStatePath(OutputPin)>>),
              buildMqttPath(<<lockPath, GpioStatePath(InputPin)>>),
              buildMqttPath(<<lockPath, mqtt_topic_gpio_prefix,
                              mqtt_topic_gpio_pin \o PinToString(OutputPin),
                              mqtt_topic_gpio_role>>),
              buildMqttPath(<<lockPath, <<"/", "a">> >>)}
MsgPayloads == {<<"0">>, <<"1">>}
\* a payload that does not fit the buffer of onMqttDataReceivedCallback
LongPayload == [i \in 1..ValueBufferSize |-> "x"]

\* time passes between two ticks
Advance ==
    /\ pc = "run"
    /\ \E d \in IdleSteps :
          /\ now + d <= MaxTime
          /\ Commit(Forget([S EXCEPT !.now = now + d]))

\* a long uptime: the first tick after boot has connected MQTT and every tick
\* since has found it connected, so that only _lastConnectedTs has moved;
\* millis() is now less than up short of wrapping
LongUptime(prefs, up) ==
    LET s0 == registerMqttReceiver(BootUp(prefs, FALSE, 1000), 1)
        s1 == update(Enter(s0), "Success", 0, <<QuickAck>>)
    IN  Forget([s1 EXCEPT !.now = ClockModulus - up,
                          !.lastConnectedTs = ClockModulus - up - PollDelay])

\* a short time passes between two ticks; millis() wraps
Pause ==
    /\ pc = "run"
    /\ \E d \in ShortSteps :
          /\ Wrap(now + d) <= MaxPause \/ Wrap(now + d) >= ClockModulus - WrapWindow
          /\ Commit(Forget([S EXCEPT !.now = Wrap(now + d)]))

\* the outer loop calls update(); the tick runs to its return or restart
Update ==
    /\ pc = "run"
    /\ now <= MaxTime \/ now >= ClockModulus - WrapWindow
    /\ \E rs \in ReconnectStatus, dur \in ReconnectDurations,
          script \in HandshakeScripts, bytes \in SentValues,
          level \in {0, 1},
          rssi \in IF rssiPublishInterval > 0
                   THEN {<<127, 127, 127>>} \cup
                        {<<-60, a, b>> : a, b \in {-60, -70}}
                   ELSE {<<127, 127, 127>>} :
          LET r == update([Enter(Forget(S)) EXCEPT !.sent = bytes,
                                                   !.level = level,
                                                   !.rssi = rssi],
                          rs, dur, script)
          IN  \* an input the tick does not read takes one value only
              /\ devConnected => rs = "Success" /\ dur = 0
              /\ (devMqttConnected \/ mqttBrokerAddr = <<>> \/ ~mqttEnabled)
                    => script = <<QuickAck>>
              /\ ( /\ (presenceCsv.null \/ presenceCsv.str = <<>>)
                    /\ ~(firstConnect /\ ~r.firstConnect /\ initTopics # <<>>) )
                    => bytes = 1
              /\ (\A pin \in DOMAIN gpioTs : gpioTs[pin] = 0) => level = 0
              /\ r.connects <= MaxConnects
              /\ Commit(r)

\* the transport comes up by itself
TransportUp ==
    /\ pc = "run"
    /\ ~devConnected
    /\ Commit(Forget([S EXCEPT !.devConnected = TRUE]))

\* the transport goes down
TransportDown ==
    /\ pc = "run"
    /\ devConnected
    /\ Commit(Forget([S EXCEPT !.devConnected = FALSE]))

\* the MQTT session is lost: Network::onMqttDisconnect runs
MqttDrop ==
    /\ pc = "run"
    /\ devMqttConnected
    /\ Commit(onMqttDisconnect(Forget([S EXCEPT !.devMqttConnected = FALSE])))

\* the broker sends a message: onMqttDataReceivedCallback runs
Message ==
    /\ pc = "run"
    /\ handlerInstalled
    /\ devMqttConnected
    /\ \E topic \in MsgTopics :
          \E payload \in MsgPayloads \cup
                         (IF topic[Len(topic)] = "a" THEN {LongPayload} ELSE {}) :
              Commit(onMqttDataReceivedCallback(Forget(S), topic, payload,
                                                Len(payload), 0))

Subscribe ==
    /\ pc = "run"
    /\ Len(subscribedTopics) < MaxTopics
    /\ \E path \in TopicPaths :
          Commit(subscribe(Log(Forget(S), "subscribe",
                               buildMqttPath(<<lockPath, path>>), <<>>),
                           lockPath, path))

InitTopic ==
    /\ pc = "run"
    /\ \E path \in TopicPaths, value \in InitValues :
          /\ initTopic(S, lockPath, path, value).initTopics # initTopics
          /\ Commit(initTopic(Log(Forget(S), "initTopic",
                                  buildMqttPath(<<lockPath, path>>), value),
                              lockPath, path, value))

RegisterMqttReceiver ==
    /\ pc = "run"
    /\ Len(mqttReceivers) < MaxReceivers
    /\ Commit(registerMqttReceiver(Forget(S), Len(mqttReceivers) + 1))

AddReconnectedCallback ==
    /\ pc = "run"
    /\ Len(reconnectedCallbacks) < MaxCallbacks
    /\ Commit(addReconnectedCallback(Forget(S), Len(reconnectedCallbacks) + 1))

SetKeepAliveCallback ==
    /\ pc = "run"
    /\ ~keepAliveCallback
    /\ Commit(setKeepAliveCallback(Forget(S)))

DisableAutoRestarts ==
    /\ pc = "run"
    /\ networkTimeout # 0 \/ restartOnDisconnect
    /\ Commit(disableAutoRestarts(Log(Forget(S), "disableAutoRestarts",
                                       <<>>, <<>>)))

DisableMqtt ==
    /\ pc = "run"
    /\ mqttEnabled
    /\ Commit(disableMqtt(Forget(S)))

ClearWifiFallback ==
    /\ pc = "run"
    /\ WiFi_fallbackDetect
    /\ Commit(clearWifiFallback(Forget(S)))

\* Network::publishPresenceDetection: the pointer is kept
publishPresenceDetection(s, csv) ==
    [s EXCEPT !.presenceCsv = [null |-> FALSE, str |-> csv]]

\* Network::gpioActionCallback
gpioActionCallback(s, pin) == [s EXCEPT !.gpioTs[pin] = s.now]

\* the strings the presence detection hands over
PresenceValues == {<<>>, <<"x">>, <<"y">>}

\* the presence detection stages a string
PublishPresenceDetection ==
    /\ pc = "run"
    /\ \E csv \in PresenceValues :
          Commit(publishPresenceDetection(Forget(S), csv))

\* Gpio reports an edge on an input pin
GpioActionCallback ==
    /\ pc = "run"
    /\ now <= MaxEdgeTime
    /\ \E pin \in InputPins : Commit(gpioActionCallback(Forget(S), pin))

\* a time shorter than the debounce interval passes while an edge is
\* younger than the interval
Bounce ==
    /\ pc = "run"
    /\ \E pin \in InputPins :
          gpioTs[pin] # 0 /\ Wrap(now - gpioTs[pin]) < GPIO_DEBOUNCE_TIME
    /\ \E d \in {GPIO_DEBOUNCE_TIME - 1, GPIO_DEBOUNCE_TIME} :
          /\ now + d <= MaxTime
          /\ Commit(Forget([S EXCEPT !.now = now + d]))

\* the outer code publishes a value: Network::publishString
PublishString ==
    /\ pc = "run"
    /\ \E path \in TopicPaths, bytes \in SentValues :
          LET s0 == Log([Forget(S) EXCEPT !.sent = bytes], "publishString",
                        <<lockPath, path>>, LocalIpPayload)
              r  == publishString(s0, lockPath, path, LocalIpPayload)
          IN  Commit([r EXCEPT !.ret = IF r.published THEN "true"
                                                      ELSE "false"])

\* prefix and topic given to the numeric and bool publishers
PublishTargets == {<<lockPath, <<"/", "a">> >>,
                   <<(<<"d", "e", "v">>), (<<"c", "o", "u", "n", "t">>)>>}
IntValues == {-7, 0, 305}

\* the outer code publishes a number: Network::publishInt returns nothing
PublishInt ==
    /\ pc = "run"
    /\ \E target \in PublishTargets, value \in IntValues,
          bytes \in SentValues :
          Commit(publishInt(Log([Forget(S) EXCEPT !.sent = bytes],
                                "publishInt", target, value),
                            target[1], target[2], value))

\* the outer code publishes a flag: Network::publishBool returns nothing
PublishBool ==
    /\ pc = "run"
    /\ \E target \in PublishTargets, value \in BOOLEAN,
          bytes \in SentValues :
          Commit(publishBool(Log([Forget(S) EXCEPT !.sent = bytes],
                                 "publishBool", target, value),
                             target[1], target[2], value))

\* Network::createHassTopicPath: the discovery prefix, the component, the
\* unique id and the entity name, each followed by a '/', then "config"; the
\* parts are concatenated as they are
createHassTopicPath(discoveryTopic, mqttDeviceType, mqttDeviceName, uidString) ==
    discoveryTopic \o <<Slash>> \o mqttDeviceType \o <<Slash>> \o uidString
        \o <<Slash>> \o mqttDeviceName \o <<"/", "c", "o", "n", "f", "i", "g">>

\* Network::publishHassTopic: with a discovery prefix the serialized
\* document is published (retained) at the entity's path
publishHassTopic(s, discoveryTopic, mqttDeviceType, mqttDeviceName, uidString, buffer) ==
    IF discoveryTopic # <<>>
    THEN Log(s, "mqttPublish",
             createHassTopicPath(discoveryTopic, mqttDeviceType,
                                 mqttDeviceName, uidString), buffer)
    ELSE s

\* removeHassTopic publishing the empty payload one level above the entity's
\* config topic
removeHassTopicAboveConfig(s, discoveryTopic, mqttDeviceType, mqttDeviceName, uidString) ==
    IF discoveryTopic # <<>>
    THEN Log(s, "mqttPublish",
             discoveryTopic \o <<Slash>> \o mqttDeviceType \o <<Slash>>
                 \o uidString \o <<Slash>> \o mqttDeviceName, <<>>)
    ELSE s

\* Network::removeHassTopic: with a discovery prefix the empty payload is
\* published (retained) at the entity's path
removeHassTopic(s, discoveryTopic, mqttDeviceType, mqttDeviceName, uidString) ==
    IF discoveryTopic # <<>>
    THEN Log(s, "mqttPublish",
             createHassTopicPath(discoveryTopic, mqttDeviceType,
                                 mqttDeviceName, uidString), <<>>)
    ELSE s

\* the discovery configuration is published for an entity that a capability
\* flag gates, as publishHASSConfigAdditionalLockEntities does for the
\* unlatch button (1068-1090), the LED switch (1157-1184) and the LED
\* brightness (1314-1339): publishHassTopic if the flag is set,
\* removeHassTopic if not.  discoveryTopic is what the preferences hold for
\* preference_mqtt_hass_discovery, buffer the serialized document
PublishHASSConfigAdditionalLockEntities ==
    /\ pc = "run"
    /\ \E discoveryTopic \in {<<>>, <<"h">>, <<"h", "/">>},
          entity \in {<<(<<"b", "u", "t", "t", "o", "n">>),
                        (<<"u", "n", "l", "a", "t", "c", "h">>)>>,
                      <<(<<"s", "w", "i", "t", "c", "h">>),
                        (<<"l", "e", "d">>)>>},
          uidString \in {<<"1">>, <<"2", "a">>},
          enabled \in BOOLEAN :
          LET s0 == Log(Forget(S), "publishHASSConfig",
                        <<discoveryTopic, entity[1], uidString, entity[2]>>,
                        enabled)
          IN  Commit(IF enabled
                     THEN publishHassTopic(s0, discoveryTopic, entity[1],
                                           entity[2], uidString, <<"{", "}">>)
                     ELSE removeHassTopic(s0, discoveryTopic, entity[1],
                                          entity[2], uidString))

\* fragments of topic paths: empty, plain, with a separator in front, at the
\* end, doubled in front
Fragments == {<<>>, <<"a">>, <<"/", "a">>, <<"a", "/">>, <<"b">>,
              <<"/", "/", "b">>}

\* the outer code builds a path from a list of fragments, and then a second
\* path from the first alone, as publishInt() does with the path the GPIO
\* stage of update() has built; one list of fragments is tried in a run
BuildMqttPath ==
    /\ pc = "run"
    /\ calls = <<>>
    /\ \E n \in 1..MaxFragments : \E paths \in [1..n -> Fragments] :
          LET outPath == buildMqttPath(paths)
              s1 == Log(Forget(S), "buildMqttPath", outPath, paths)
          IN  Commit(Log(s1, "buildMqttPath", buildMqttPath(<<outPath>>),
                         <<outPath>>))

\* the loop: reboots, ticks, the passing of time, the broker dropping the
\* session
Loop ==
    \/ Boot
    \/ Advance
    \/ Update
    \/ MqttDrop

\* the session: the loop, with the transport coming and going by itself
Session ==
    \/ Loop
    \/ TransportUp
    \/ TransportDown

\* the session with MQTT being switched off
Next ==
    \/ Session
    \/ DisableMqtt

Spec == Init /\ [][Next]_vars

\* boots, ticks and the passing of time under every watchdog setting, with
\* the watchdogs being switched off
SpecControls ==
    Init /\ [][Boot \/ Advance \/ Update \/ DisableAutoRestarts]_vars

\* boot and transport selection over every hardware selection
NextBoot == Boot \/ Advance \/ Update
SpecBoot == InitOver(BootPrefs, BOOLEAN) /\ [][NextBoot]_vars

\* boots and ticks with the restart-on-disconnect watchdog on, and
\* clearWifiFallback()
NextFallback == Boot \/ Advance \/ Update \/ ClearWifiFallback
SpecFallback == InitOver(FallbackPrefs, BOOLEAN) /\ [][NextFallback]_vars

\* the ticks, connection losses and inbound messages of a device whose
\* millis() is about to wrap
SpecWrap ==
    /\ \E prefs \in PlainPrefs : Commit0(LongUptime(prefs, WrapWindow - 1000))
    /\ [][Pause \/ Update \/ MqttDrop \/ Message]_vars

\* the loop with topics being recorded by subscribe(prefix, path)
NextTopics == Loop \/ Subscribe
SpecTopics == InitOver(PlainPrefs, {FALSE}) /\ [][NextTopics]_vars

\* the loop with init topics being registered
NextReplay == Loop \/ InitTopic
SpecReplay == InitOver(PlainPrefs, {FALSE}) /\ [][NextReplay]_vars

\* the loop with reconnect listeners and the keep-alive callback being
\* registered
NextListeners == Loop \/ AddReconnectedCallback \/ SetKeepAliveCallback
SpecListeners == InitOver(PlainPrefs, {FALSE}) /\ [][NextListeners]_vars

\* the loop with short waits between ticks
NextBackoff == Loop \/ Pause
SpecBackoff == InitOver(BackoffPrefs, {FALSE}) /\ [][NextBackoff]_vars

\* the loop with receivers being registered and messages coming in
NextDispatch == Loop \/ RegisterMqttReceiver \/ Message
SpecDispatch == InitOver(PlainPrefs, {FALSE}) /\ [][NextDispatch]_vars

\* the loop with every operation that could touch the connection state:
\* subscribe, the publish operations (the transport accepting the publish),
\* inbound dispatch, disableMqtt()
NextOwners ==
    \/ Loop
    \/ Len(subscribedTopics) < MaxOwnerTopics /\ Subscribe
    \/ PublishString /\ sent' = 1
    \/ Message
    \/ DisableMqtt
SpecOwners == InitOver(PlainPrefs, {FALSE}) /\ [][NextOwners]_vars

\* boots, ticks and the passing of time under every watchdog setting; a
\* device that restartEsp() has restarted boots
SpecLive == Init /\ [][NextBoot]_vars /\ WF_vars(Boot)

\* boots, ticks and short and long waits with no broker configured
SpecUnconfigured ==
    InitOver(UnconfiguredPrefs, {FALSE})
       /\ [][Boot \/ Advance \/ Pause \/ Update]_vars

\* the loop with presence strings being staged
SpecStaging ==
    InitOver(PlainPrefs, {FALSE})
       /\ [][Loop \/ PublishPresenceDetection]_vars

\* ticks, with edges being reported on the input pins and times about as
\* long as the debounce interval passing
SpecGpio ==
    InitOver(PlainPrefs, {FALSE})
       /\ [][Update \/ GpioActionCallback \/ Bounce]_vars

\* ticks, the passing of time and the broker dropping the session, with the
\* outer code publishing values
SpecPublish ==
    InitOver(PlainPrefs, {FALSE})
       /\ [][Advance \/ Update \/ MqttDrop \/ PublishString \/ PublishInt
                \/ PublishBool]_vars

\* ticks, the passing of time and the broker dropping the session, with
\* RSSI publishing on
SpecRssi ==
    InitOver({[p EXCEPT !.rssi_publish_interval = 30] : p \in PlainPrefs},
             {FALSE})
       /\ [][Advance \/ Update \/ MqttDrop]_vars

\* buildMqttPath on its own, over every list of fragments
SpecPaths == InitOver(PlainPrefs, {FALSE}) /\ [][BuildMqttPath]_vars

\* ticks and the passing of time, with the discovery configuration of gated
\* entities being published
SpecDiscovery ==
    InitOver(PlainPrefs, {FALSE})
       /\ [][Advance \/ Update \/ PublishHASSConfigAdditionalLockEntities]_vars

TypeOK ==
    /\ pc \in {"run", "restarted"}
    /\ mqttConnectionState \in {0, 1, 2}
    /\ now \in 0..(ClockModulus - 1)

\* -------------------------------------------------------------- properties
\* the places in calls where the given operation was called
Positions(op) == {i \in 1..Len(calls) : calls[i].op = op}

Has(op) == Positions(op) # {}

\* a handshake has succeeded where reconnect() installs the message handler
Successes == Positions("mqttOnMessage")

\* the last call that belongs to the handshake success at place i: the one
\* before the next success, or the last of the tick
SegmentEnd(i) ==
    LET later == {j \in Successes : j > i}
    IN  IF later = {} THEN Len(calls)
        ELSE (CHOOSE j \in later : \A k \in later : j <= k) - 1

\* the calls of the given operation that follow the handshake success at i
CallsAfter(i, op) ==
    SelectSeq(SubSeq(calls, i + 1, SegmentEnd(i)), LAMBDA c : c.op = op)

\* the number since boot of the handshake success at place i
ConnectNumber(i) == tick.connects + Cardinality({j \in Successes : j <= i})

Restarted(reason) == pc = "restarted" /\ restartReason = reason

\* update() has just called reconnect() and reconnect() has returned
ReconnectCalled ==
    tick.ran /\ pc = "run" /\ mqttEnabled /\ ~tick.devMqttConnected

\* C1: after every successful handshake the calls to mqttSubscribe are, in
\* order, exactly the recorded topics: as many as were recorded, a topic
\* repeated as often as it was inserted; and mqttSubscribe is called nowhere
\* else
C1_SubscriptionsReplayedInOrder ==
    /\ \A i \in Successes :
          LET subs == CallsAfter(i, "mqttSubscribe")
          IN  /\ Len(subs) = Len(subscribedTopics)
              /\ \A k \in 1..Len(subs) : subs[k].a = subscribedTopics[k]
    /\ Cardinality(Positions("mqttSubscribe")) =
          Cardinality(Successes) * Len(subscribedTopics)
    /\ connects = IF tick.ran THEN tick.connects + Cardinality(Successes)
                  ELSE connects

\* C1 witness: a reconnect later than the first has just replayed three
\* recorded topics, one of them inserted twice
C1_Witness ==
    /\ Successes # {}
    /\ tick.connects >= 1
    /\ Len(subscribedTopics) = 3
    /\ subscribedTopics[2] = subscribedTopics[3]
    /\ Len(CallsAfter(CHOOSE i \in Successes : TRUE, "mqttSubscribe")) = 3

\* what a handshake success publishes: the device name and the Init Topic
\* Map on the first success since boot, then the online state and the
\* address on every success
ExpectedPublishes(n) ==
    (IF n = 1
     THEN <<[a |-> maintenancePathPrefix \o mqtt_topic_network_device,
             v |-> DeviceNamePayload]>> \o
          [k \in 1..Len(initTopics) |->
              [a |-> initTopics[k].path, v |-> initTopics[k].value]]
     ELSE <<>>) \o
    <<[a |-> maintenancePathPrefix \o mqtt_topic_mqtt_connection_state,
       v |-> OnlinePayload],
      [a |-> maintenancePathPrefix \o mqtt_topic_info_nuki_hub_ip,
       v |-> LocalIpPayload]>>

\* C2: the Init Topic Map is published once, entry by entry, in the first
\* successful connect of the boot; no later reconnect and no failed attempt
\* publishes any of it
C2_InitTopicsPublishedOnce ==
    /\ \A i \in Successes :
          LET pubs == CallsAfter(i, "mqttPublish")
              want == ExpectedPublishes(ConnectNumber(i))
          IN  /\ Len(pubs) = Len(want)
              /\ \A k \in 1..Len(pubs) :
                    pubs[k].a = want[k].a /\ pubs[k].v = want[k].v
    /\ \A j \in Positions("mqttPublish") : \E i \in Successes : i < j
    /\ (connects >= 1) = ~firstConnect

\* C2 witness: one tick held the first connect of the boot and, the session
\* having dropped, a reconnect, with two entries in the Init Topic Map
C2_Witness ==
    /\ tick.ran
    /\ tick.connects = 0
    /\ Cardinality(Successes) = 2
    /\ Len(initTopics) = 2

\* the inbound topic that commands the output pin
OutputCommandTopic ==
    lockPath \o <<"/", "g", "p", "i", "o", "/", "p", "i", "n", "_">> \o
    PinToString(OutputPin) \o <<"/", "s", "t", "a", "t", "e">>

\* C3: a message handled less than 2000 ms after the last handshake success
\* opened the quiet window reaches no receiver; if it commands the output
\* pin, the pin is written all the same
C3_QuietWindowKeepsGpio ==
    (lastMsg.topic # <<>> /\ lastMsg.at < lastMsg.opened + QuietWindow) =>
        /\ lastMsg.receivers = <<>>
        /\ lastMsg.topic = OutputCommandTopic =>
              lastMsg.wrote =
                 <<[pin |-> OutputPin,
                    level |-> IF lastMsg.payload = <<"1">> THEN "HIGH"
                              ELSE "LOW"]>>

\* C3 witness: with a receiver registered, a command for the output pin has
\* come in within the quiet window and the pin was written
C3_Witness ==
    /\ lastMsg.topic = OutputCommandTopic
    /\ lastMsg.at < lastMsg.opened + QuietWindow
    /\ mqttReceivers # <<>>
    /\ lastMsg.wrote # <<>>

\* no call of a handshake was made
NoHandshake ==
    ~Has("setWill") /\ ~Has("mqttSetServer") /\ ~Has("mqttConnect")

\* C4 as claimed: with the broker address "", every reconnect() returns
\* false, sets the retry deadline to now + 5000 and issues no handshake,
\* whatever the deadline was
C4_AsClaimed ==
    (ReconnectCalled /\ mqttBrokerAddr = <<>>) =>
        /\ ret = "false"
        /\ nextReconnect = Wrap(now + ReconnectBackoff)
        /\ NoHandshake

\* C4 amended: with the broker address "", every reconnect() returns false
\* and issues no handshake; it sets the retry deadline to now + 5000 only
\* when millis() has passed the deadline, and leaves the deadline as it is
\* otherwise
C4_EmptyBrokerAborts ==
    (ReconnectCalled /\ mqttBrokerAddr = <<>>) =>
        /\ ret = "false"
        /\ NoHandshake
        /\ mqttConnectionState = 0
        /\ nextReconnect = IF now > tick.nextReconnect
                           THEN Wrap(now + ReconnectBackoff)
                           ELSE tick.nextReconnect

\* C4 witness: reconnect() was called with the broker address "" while a
\* deadline set by an earlier call had not passed
C4_Witness ==
    /\ ReconnectCalled
    /\ mqttBrokerAddr = <<>>
    /\ tick.nextReconnect > 0
    /\ now <= tick.nextReconnect
    /\ ret = "false"

\* C5: a failed handshake leaves the connection state 0, is followed by
\* mqttDisconnect(true) and sets the retry deadline to 5000 ms after the
\* failure; mqttConnect is called only when millis() is greater than the
\* deadline the tick found, and never after a failure in the same tick
C5_BackoffAfterFailure ==
    /\ \A i \in Positions("printError") :
          /\ i < Len(calls)
          /\ calls[i + 1].op = "mqttDisconnect"
          /\ calls[i + 1].v = <<"force">>
          /\ calls[i + 1].st = 0
          /\ mqttConnectionState = 0
          /\ nextReconnect = Wrap(calls[i].t + ReconnectBackoff)
          /\ ret = "false"
    /\ \A j \in Positions("mqttConnect") :
          /\ calls[j].t > tick.nextReconnect
          /\ \A i \in Positions("printError") : j < i
    /\ (tick.ran /\ mqttBrokerAddr # <<>> /\ nextReconnect # tick.nextReconnect)
          => Has("printError")

\* C5 witness: reconnect() was called at the very millisecond of a deadline
\* that a failed handshake had set, and made no attempt
C5_Witness ==
    /\ ReconnectCalled
    /\ tick.nextReconnect > 0
    /\ now = tick.nextReconnect
    /\ ret = "false"
    /\ ~Has("mqttConnect")

\* the transport's reconnect() was called and returned the given status
TransportReconnectReturned(status) ==
    \E i \in Positions("reconnect") : calls[i].v = <<status>>

\* C6 as claimed: a tick calls mqttConnect only if the transport is
\* connected, the MQTT layer is not, and millis() has passed the retry
\* deadline; never in a tick in which the transport is still disconnected
C6_AsClaimed ==
    \A j \in Positions("mqttConnect") :
        /\ tick.devConnected \/ TransportReconnectReturned("Success")
        /\ ~tick.devMqttConnected
        /\ calls[j].t > tick.nextReconnect

\* the network timeout watchdog's condition as the claim words it, on what
\* the tick found
TimeoutElapsed ==
    /\ mqttEnabled
    /\ ~tick.devMqttConnected
    /\ networkTimeout > 0
    /\ tick.ts - tick.lastConnectedTs > networkTimeout * 1000
    /\ tick.ts > UptimeGrace

\* C7 as claimed: a tick restarts with NetworkTimeoutWatchdog exactly when
\* MQTT is enabled and down, the timeout is positive, more than timeout*1000
\* ms have passed since the last connected tick, and uptime is above 60000
C7_AsClaimed ==
    tick.ran => (Restarted("NetworkTimeoutWatchdog") <=> TimeoutElapsed)

\* the tick restarted in its transport stage, before the timeout was looked
\* at
RestartedAtTransportStage ==
    \/ Restarted("RestartOnDisconnectWatchdog")
    \/ Restarted("NetworkDeviceCriticalFailure")

\* C7 amended: a tick restarts with NetworkTimeoutWatchdog exactly when the
\* claimed condition holds and the tick has not already restarted in its
\* transport stage (restart on disconnect, or a critical transport failure)
C7_NetworkTimeoutWatchdog ==
    tick.ran =>
        /\ Restarted("NetworkTimeoutWatchdog") <=>
              (TimeoutElapsed /\ ~RestartedAtTransportStage)
        /\ Restarted("NetworkTimeoutWatchdog") =>
              (~Has("mqttConnect") /\ calls[Len(calls)].op = "restartEsp")

\* C7 witness: a tick has restarted the device with NetworkTimeoutWatchdog
C7_Witness ==
    /\ tick.ran
    /\ Restarted("NetworkTimeoutWatchdog")
    /\ tick.ts - tick.lastConnectedTs > networkTimeout * 1000

\* the scenario of C8, but for the uptime: broker configured, transport
\* connected, MQTT down, network timeout 30, the last connected tick more
\* than the timeout ago (at an uptime of 45000 ms it is at most 45000 ms ago)
TimeoutScenario ==
    /\ tick.ran
    /\ mqttEnabled
    /\ mqttBrokerAddr # <<>>
    /\ tick.devConnected
    /\ ~tick.devMqttConnected
    /\ networkTimeout = 30
    /\ tick.ts - tick.lastConnectedTs > 30000

\* C8 as claimed: in the scenario at uptime 45000 ms the tick restarts with
\* NetworkTimeoutWatchdog
C8_AsClaimed ==
    (TimeoutScenario /\ tick.ts = 45000) => Restarted("NetworkTimeoutWatchdog")

\* C8 amended: in the scenario at uptime 45000 ms the tick does not restart
\* and goes on to reconnect(); it restarts with NetworkTimeoutWatchdog once
\* uptime is above 60000 ms
C8_ScenarioNeedsUptime ==
    /\ (TimeoutScenario /\ tick.ts = 45000) =>
          (pc = "run" /\ ret \in {"true", "false"})
    /\ (TimeoutScenario /\ tick.ts > UptimeGrace) =>
          Restarted("NetworkTimeoutWatchdog")

\* C8 witness: the scenario at uptime 45000 ms, and the tick has made a
\* handshake attempt
C8_Witness ==
    /\ TimeoutScenario
    /\ tick.ts = 45000
    /\ pc = "run"
    /\ Has("mqttConnect")

\* C9: a tick with MQTT enabled that finds the transport disconnected, the
\* restart-on-disconnect flag set and uptime above 60000 ms restarts with
\* RestartOnDisconnectWatchdog, having called neither the transport's
\* reconnect() nor anything of an MQTT attempt; no other tick restarts with
\* that reason
C9_RestartOnDisconnectWatchdog ==
    tick.ran =>
        /\ Restarted("RestartOnDisconnectWatchdog") <=>
              /\ mqttEnabled
              /\ ~tick.devConnected
              /\ restartOnDisconnect
              /\ tick.ts > UptimeGrace
        /\ Restarted("RestartOnDisconnectWatchdog") =>
              /\ ~Has("reconnect")
              /\ NoHandshake
              /\ Len(calls) = 2
              /\ calls[1].op = "update"
              /\ calls[2].op = "restartEsp"

\* C9 witness: a tick has restarted the device with
\* RestartOnDisconnectWatchdog
C9_Witness ==
    /\ tick.ran
    /\ Restarted("RestartOnDisconnectWatchdog")
    /\ ~tick.devConnected

\* C10: a tick in which the transport's reconnect() returns CriticalFailure
\* ends with the fallback marker set and the device restarted with
\* NetworkDeviceCriticalFailure; the boot that follows a restart with the
\* marker present and the fallback not disabled selects WiFi, whatever the
\* persisted hardware selection
C10_CriticalFailureFallsBackToWifi ==
    [][/\ TransportReconnectReturned("CriticalFailure")' =>
             /\ WiFi_fallbackDetect'
             /\ Restarted("NetworkDeviceCriticalFailure")'
             /\ calls'[Len(calls')].op = "restartEsp"
       /\ (/\ pc = "restarted"
           /\ WiFi_fallbackDetect
           /\ ~preferences.wifi_fallback_disabled) =>
             /\ pc' = "run"
             /\ networkDeviceType' = "WiFi"
             /\ WiFi_fallbackDetect']_vars

\* C10 witness: on a board whose hardware selection is not WiFi, with the
\* fallback not disabled, a critical failure has set the marker and
\* restarted the device
C10_Witness ==
    /\ Restarted("NetworkDeviceCriticalFailure")
    /\ WiFi_fallbackDetect
    /\ ~preferences.wifi_fallback_disabled
    /\ preferences.network_hardware = 4
    /\ networkDeviceType = "Olimex_LAN8720"

\* C11: a boot that finds the fallback marker while the WiFi fallback is
\* disabled ends restarted with NetworkDeviceCriticalFailureNoWifiFallback
\* and with the marker cleared; the boot that follows selects the device of
\* the persisted hardware selection and leaves the marker clear; and a
\* restart with this reason is only ever taken from a restart by a critical
\* failure, with the fallback disabled
C11_NoFallbackRestartClearsMarker ==
    [][/\ (/\ pc = "restarted"
           /\ WiFi_fallbackDetect
           /\ preferences.wifi_fallback_disabled) =>
             /\ Restarted("NetworkDeviceCriticalFailureNoWifiFallback")'
             /\ ~WiFi_fallbackDetect'
       /\ Restarted("NetworkDeviceCriticalFailureNoWifiFallback")' =>
             ~WiFi_fallbackDetect'
       /\ Restarted("NetworkDeviceCriticalFailureNoWifiFallback") =>
             /\ pc' = "run"
             /\ ~WiFi_fallbackDetect'
             /\ networkDeviceType' =
                    DeviceTypeOf(IF preferences.network_hardware = 0 THEN 1
                                 ELSE preferences.network_hardware)
       /\ Restarted("NetworkDeviceCriticalFailureNoWifiFallback")' =>
             /\ Restarted("NetworkDeviceCriticalFailure")
             /\ WiFi_fallbackDetect
             /\ preferences.wifi_fallback_disabled]_vars

\* C11 witness: on a board whose hardware selection is not WiFi, with the
\* fallback disabled, the boot after a critical failure has cleared the
\* marker and restarted the device
C11_Witness ==
    /\ Restarted("NetworkDeviceCriticalFailureNoWifiFallback")
    /\ ~WiFi_fallbackDetect
    /\ preferences.wifi_fallback_disabled
    /\ preferences.network_hardware = 4

\* C12 as claimed: a boot leaves the fallback marker clear, and the boot
\* that follows a restart for another reason than a critical failure
\* selects the device of the persisted hardware selection
C12_AsClaimed ==
    [][(pc = "restarted" /\ pc' = "run") =>
          /\ ~WiFi_fallbackDetect'
          /\ restartReason # "NetworkDeviceCriticalFailure" =>
                networkDeviceType' =
                    DeviceTypeOf(IF preferences.network_hardware = 0 THEN 1
                                 ELSE preferences.network_hardware)]_vars

\* C12 amended: the boot that the marker sends to WiFi leaves the marker
\* set; a boot without the marker selects the device of the persisted
\* hardware selection; while the device runs, a set marker is cleared in
\* exactly two ways, by a tick in which the transport's reconnect() returns
\* Success and by clearWifiFallback(), and both clear it
C12_MarkerOutlivesFallbackBoot ==
    [][/\ (/\ pc = "restarted"
           /\ WiFi_fallbackDetect
           /\ ~preferences.wifi_fallback_disabled) =>
             /\ pc' = "run"
             /\ networkDeviceType' = "WiFi"
             /\ WiFi_fallbackDetect'
       /\ (pc = "restarted" /\ ~WiFi_fallbackDetect) =>
             /\ pc' = "run"
             /\ ~WiFi_fallbackDetect'
             /\ networkDeviceType' =
                    DeviceTypeOf(IF preferences.network_hardware = 0 THEN 1
                                 ELSE preferences.network_hardware)
       /\ (pc = "run" /\ WiFi_fallbackDetect /\ ~WiFi_fallbackDetect') =>
             \/ TransportReconnectReturned("Success")'
             \/ Has("clearWifiFallback")'
       /\ (\/ TransportReconnectReturned("Success")'
           \/ Has("clearWifiFallback")') => ~WiFi_fallbackDetect']_vars

\* C12 witness: a device that booted on the WiFi fallback, on a board whose
\* hardware selection is not WiFi, has restarted for the
\* restart-on-disconnect watchdog with the marker still set
C12_Witness ==
    /\ Restarted("RestartOnDisconnectWatchdog")
    /\ WiFi_fallbackDetect
    /\ networkDeviceType = "WiFi"
    /\ preferences.network_hardware = 4

\* the subscribe and publish calls that follow the handshake success at i
TrafficAfter(i) ==
    SelectSeq(SubSeq(calls, i + 1, SegmentEnd(i)),
              LAMBDA c : c.op \in {"mqttSubscribe", "mqttPublish"})

\* C13: at every handshake success the quiet window is already open when
\* the message handler is installed; the subscribe and publish calls that
\* follow are, in this order, the recorded subscriptions, then (first
\* success since boot only) the device name and the Init Topic Map, then the
\* online state and the local address, which every success publishes
C13_HandshakeEffectsInOrder ==
    \A i \in Successes :
        LET seg == TrafficAfter(i)
            n == Len(subscribedTopics)
            want == ExpectedPublishes(ConnectNumber(i))
        IN  /\ calls[i].quiet = Wrap(calls[i].t + QuietWindow)
            /\ Len(seg) = n + Len(want)
            /\ \A k \in 1..n :
                  /\ seg[k].op = "mqttSubscribe"
                  /\ seg[k].a = subscribedTopics[k]
            /\ \A k \in 1..Len(want) :
                  /\ seg[n + k].op = "mqttPublish"
                  /\ seg[n + k].a = want[k].a
                  /\ seg[n + k].v = want[k].v
            /\ seg[Len(seg) - 1].v = OnlinePayload
            /\ seg[Len(seg)].v = LocalIpPayload

\* C13 witness: a tick held the first handshake success of the boot, with a
\* recorded subscription and two entries in the Init Topic Map, and after
\* the session dropped a second success
C13_Witness ==
    /\ tick.ran
    /\ tick.connects = 0
    /\ Cardinality(Successes) = 2
    /\ Len(subscribedTopics) >= 1
    /\ Len(initTopics) = 2
    /\ \A i \in Successes : Len(TrafficAfter(i)) >= 3

\* C14: after every handshake success every registered reconnect listener
\* is called once, in registration order, after the online state has been
\* published and with mqttConnectionState already 2; no listener is called
\* anywhere else, so none after a failed attempt
C14_ReconnectListenersNotified ==
    /\ \A i \in Successes :
          LET cbs == CallsAfter(i, "callback")
          IN  /\ Len(cbs) = Len(reconnectedCallbacks)
              /\ \A k \in 1..Len(cbs) :
                    /\ cbs[k].a = <<reconnectedCallbacks[k]>>
                    /\ cbs[k].st = 2
    /\ \A j \in Positions("callback") :
          \E i \in Successes :
              /\ i < j
              /\ j <= SegmentEnd(i)
              /\ \E p \in (i + 1)..(j - 1) :
                    /\ calls[p].op = "mqttPublish"
                    /\ calls[p].v = OnlinePayload
              /\ \A p \in (i + 1)..(j - 1) : calls[p].op # "printError"
    /\ Cardinality(Positions("callback")) =
          Cardinality(Successes) * Len(reconnectedCallbacks)

\* C14 witness: with two listeners registered, a tick held a handshake
\* success that called both and, the session having dropped, an attempt
\* that failed
C14_Witness ==
    /\ Len(reconnectedCallbacks) = 2
    /\ Cardinality(Successes) = 1
    /\ Cardinality(Positions("callback")) = 2
    /\ \E f \in Positions("printError") : \A i \in Successes : i < f

\* C15 as claimed: the topic on which a handshake success publishes the
\* online state is the topic that the handshake registered as last-will
\* topic with setWill
C15_AsClaimed ==
    \A p \in Positions("mqttPublish") :
        calls[p].v = OnlinePayload =>
            \A w \in Positions("setWill") : w < p => calls[w].a = calls[p].a

\* C16: the connection state is 0, 1 or 2, now and at every call made on
\* the way; a step changes it only if it is a tick in which reconnect() was
\* entered (or the boot, which constructs the object anew), and inside a
\* step it only changes after a call made inside reconnect()
C16_StateOwnedByReconnect ==
    [][/\ mqttConnectionState' \in {0, 1, 2}
       /\ \A i \in 1..Len(calls') : calls'[i].st \in {0, 1, 2}
       /\ mqttConnectionState' # mqttConnectionState =>
             \/ pc = "restarted"
             \/ /\ tick'.ran
                /\ \E i \in 1..Len(calls') : calls'[i].op = "Network::reconnect"
       /\ \A i \in 1..Len(calls') :
             (IF i = 1 THEN mqttConnectionState ELSE calls'[i - 1].st)
                 # calls'[i].st =>
             i > 1 /\ calls'[i - 1].depth = 1
       /\ (calls' # <<>> /\
           calls'[Len(calls')].st # mqttConnectionState') =>
             calls'[Len(calls')].depth = 1]_vars

\* C16 witness: the broker dropped the session while the state was 2, and
\* the state is still 2
C16_Witness ==
    /\ pc = "run"
    /\ Has("onMqttDisconnect")
    /\ ~tick.ran
    /\ mqttConnectionState = 2

\* C17 as claimed: between ticks the connection state is 2 exactly when the
\* transport's MQTT layer is connected
C17_AsClaimed ==
    (pc = "run" /\ mqttEnabled) => ((mqttConnectionState = 2) <=> devMqttConnected)

\* C18: no call is made with more than one reconnect() running; reconnect()
\* is entered only in a tick of update(), at most once in a tick, and with
\* no reconnect() running; so nothing that runs inside it (the pumped
\* transport, the connect and disconnect callbacks) and nothing that runs
\* between ticks (the disconnect callback, the inbound handler) enters it
C18_OneReconnectAtATime ==
    /\ \A i \in 1..Len(calls) : calls[i].depth \in {0, 1}
    /\ Cardinality(Positions("Network::reconnect")) <= 1
    /\ \A i \in Positions("Network::reconnect") :
          /\ tick.ran
          /\ calls[i].depth = 1
          /\ \A j \in 1..(i - 1) : calls[j].depth = 0
    /\ ~tick.ran => \A i \in 1..Len(calls) : calls[i].depth = 0

\* C18 witness: while reconnect() waited for the broker's reply the pumped
\* transport ran the disconnect callback
C18_Witness ==
    /\ tick.ran
    /\ \E i \in Positions("onMqttDisconnect") :
          /\ calls[i].depth = 1
          /\ \E j \in Positions("Network::reconnect") : j < i

\* C19: a message handled when the quiet window is over is passed to every
\* registered receiver once, in registration order; and while the device
\* runs the list of receivers only grows at its end
C19_ReceiversInRegistrationOrder ==
    [][/\ (/\ lastMsg'.topic # <<>>
           /\ lastMsg'.at >= lastMsg'.opened + QuietWindow) =>
             /\ Len(lastMsg'.receivers) = Len(mqttReceivers')
             /\ \A k \in 1..Len(mqttReceivers') :
                   lastMsg'.receivers[k].receiver = mqttReceivers'[k]
       /\ (pc = "run" /\ pc' = "run") =>
             /\ Len(mqttReceivers) <= Len(mqttReceivers')
             /\ SubSeq(mqttReceivers', 1, Len(mqttReceivers)) = mqttReceivers
             /\ Len(mqttReceivers') <= Len(mqttReceivers) + 1]_vars

\* C19 witness: with two receivers registered, a message has come in after
\* the quiet window and was passed to both
C19_Witness ==
    /\ lastMsg.topic # <<>>
    /\ lastMsg.at >= lastMsg.opened + QuietWindow
    /\ Len(mqttReceivers) = 2
    /\ Len(lastMsg.receivers) = 2

\* the output pin whose state topic is the given topic, if there is one
StateTopicPins(topic) ==
    {n \in {pinConfiguration[i].pin : i \in 1..Len(pinConfiguration)} :
        /\ getPinRole(n) = "GeneralOutput"
        /\ topic = buildMqttPath(<<lockPath, GpioStatePath(n)>>)}

\* C20 as claimed: an inbound message writes a pin exactly when its topic
\* is the state topic of an output pin, and then that pin, HIGH for the
\* payload "1" and LOW otherwise
C20_AsClaimed ==
    lastMsg.topic # <<>> =>
        /\ (lastMsg.wrote # <<>>) <=> (StateTopicPins(lastMsg.topic) # {})
        /\ \A n \in StateTopicPins(lastMsg.topic) :
              lastMsg.wrote =
                 <<[pin |-> n,
                    level |-> IF lastMsg.payload = <<"1">> THEN "HIGH"
                              ELSE "LOW"]>>

\* C21 as claimed: the payload handed to the parsing and to the receivers
\* is the first min(len, 49) bytes of the message, and every receiver is
\* given the full length of the message's payload
C21_AsClaimed ==
    lastMsg.topic # <<>> =>
        /\ lastMsg.payload =
              SubSeq(lastMsg.raw, 1,
                     IF Len(lastMsg.raw) < ValueBufferSize - 1
                     THEN Len(lastMsg.raw) ELSE ValueBufferSize - 1)
        /\ \A k \in 1..Len(lastMsg.receivers) :
              lastMsg.receivers[k].length = Len(lastMsg.raw)

\* the fragments joined from the last one backwards: what comes before, a
\* '/' unless the last fragment starts with one, the last fragment
RECURSIVE ExpectedPath(_)
ExpectedPath(paths) ==
    IF Len(paths) = 1 THEN paths[1]
    ELSE LET last == paths[Len(paths)]
         IN  ExpectedPath(SubSeq(paths, 1, Len(paths) - 1))
                \o (IF last # <<>> /\ last[1] = "/" THEN <<>> ELSE <<"/">>)
                \o last

\* C22: buildMqttPath concatenates the fragments in order, inserts exactly
\* one '/' before every fragment after the first that does not itself start
\* with '/', inserts nothing before the first fragment and leaves every
\* other character unchanged
C22_PathIsFragmentsJoined ==
    \A i \in Positions("buildMqttPath") : calls[i].a = ExpectedPath(calls[i].v)

\* C22 witness: three fragments were joined, the first ending with a
\* separator, the second starting with two, the third plain; the separators
\* of the fragments are all kept and one is inserted before the third
C22_Witness ==
    \E i \in Positions("buildMqttPath") :
        /\ calls[i].v = <<(<<"a", "/">>), (<<"/", "/", "b">>), (<<"b">>)>>
        /\ calls[i].a = <<"a", "/", "/", "/", "b", "/", "b">>

\* the number of separators a fragment begins with, and ends with
LeadingSeparators(path) ==
    Cardinality({n \in 1..Len(path) : \A k \in 1..n : path[k] = "/"})
TrailingSeparators(path) ==
    Cardinality({n \in 1..Len(path) :
                    \A k \in (Len(path) - n + 1)..Len(path) : path[k] = "/"})

\* the separators that stand in the joined path c.a where the last fragment
\* of c.v meets what was joined before it
SeparatorsAtLastJunction(c) ==
    LET n    == Len(c.v)
        last == c.v[n]
        pre  == ExpectedPath(SubSeq(c.v, 1, n - 1))
    IN  TrailingSeparators(pre) + (Len(c.a) - Len(pre) - Len(last))
           + LeadingSeparators(last)

\* C23 as claimed: whatever separators the fragments end or begin with,
\* exactly one separator stands between adjacent fragments of the path
\* built, and re-joining the output yields the same path
C23_AsClaimed ==
    /\ \A i \in Positions("buildMqttPath") :
          Len(calls[i].v) > 1 => SeparatorsAtLastJunction(calls[i]) = 1
    /\ Len(calls) = 2 => calls[2].a = calls[1].a

\* C23 (amended): exactly one separator stands between adjacent fragments
\* where the path joined so far does not end with a separator and the
\* fragment added begins with at most one; separators that are already
\* there are kept, so that more than one can stand at a junction; and
\* re-joining the output yields the same path
C23_OneSeparatorWhereNoneDoubled ==
    /\ \A i \in Positions("buildMqttPath") :
          LET c == calls[i]
              n == Len(c.v)
              pre == ExpectedPath(SubSeq(c.v, 1, n - 1))
          IN  n > 1 =>
                /\ (TrailingSeparators(pre) = 0
                        /\ LeadingSeparators(c.v[n]) <= 1)
                     => SeparatorsAtLastJunction(c) = 1
                /\ SeparatorsAtLastJunction(c) =
                      TrailingSeparators(pre)
                         + (IF LeadingSeparators(c.v[n]) = 0 THEN 1
                            ELSE LeadingSeparators(c.v[n]))
    /\ Len(calls) = 2 => calls[2].v = <<calls[1].a>> /\ calls[2].a = calls[1].a

\* C23 witness: "a/" and "b" were joined to "a//b" with two separators at
\* the junction, and re-joining "a//b" gave "a//b"
C23_Witness ==
    /\ Len(calls) = 2
    /\ calls[1].op = "buildMqttPath"
    /\ calls[1].v = <<(<<"a", "/">>), (<<"b">>)>>
    /\ calls[1].a = <<"a", "/", "/", "b">>
    /\ calls[2].a = <<"a", "/", "/", "b">>

\* the number a string of decimal digits stands for
RECURSIVE DigitsValue(_)
DigitsValue(str) ==
    IF str = <<>> THEN 0
    ELSE 10 * DigitsValue(SubSeq(str, 1, Len(str) - 1))
            + DigitVal(str[Len(str)])

\* str is the decimal text of value: a minus sign exactly for a negative
\* value, then digits without a leading zero
IsDecimalTextOf(str, value) ==
    LET digits == IF value < 0 THEN Tail(str) ELSE str
    IN  /\ str # <<>>
        /\ value < 0 => str[1] = "-"
        /\ digits # <<>>
        /\ \A k \in 1..Len(digits) : IsDigit(digits[k])
        /\ Len(digits) > 1 => digits[1] # "0"
        /\ DigitsValue(digits) = (IF value < 0 THEN -value ELSE value)

\* the step just taken was the outer code calling the given publisher
PublishCall(op) == calls # <<>> /\ calls[1].op = op

\* C24: publishInt(prefix, topic, v) issues exactly one publish, to the path
\* built from prefix and topic, whose payload is the decimal text of v;
\* publishBool does the same with payload "1" for true and "0" for false
C24_NumbersAndFlagsAsText ==
    /\ PublishCall("publishInt") =>
          /\ Len(calls) = 2
          /\ calls[2].op = "mqttPublish"
          /\ calls[2].a = ExpectedPath(calls[1].a)
          /\ IsDecimalTextOf(calls[2].v, calls[1].v)
    /\ PublishCall("publishBool") =>
          /\ Len(calls) = 2
          /\ calls[2].op = "mqttPublish"
          /\ calls[2].a = ExpectedPath(calls[1].a)
          /\ calls[2].v = (IF calls[1].v THEN <<"1">> ELSE <<"0">>)

\* C24 witness: publishInt("dev", "count", -7) has published "-7" at
\* dev/count
C24_Witness ==
    /\ PublishCall("publishInt")
    /\ calls[1].a = <<(<<"d", "e", "v">>), (<<"c", "o", "u", "n", "t">>)>>
    /\ calls[1].v = -7
    /\ calls[2].a = <<"d", "e", "v", "/", "c", "o", "u", "n", "t">>
    /\ calls[2].v = <<"-", "7">>

\* C25: a failed publish is absorbed.  publishString returns true exactly
\* when the transport reports more than 0 bytes, publishInt and publishBool
\* return nothing, and whatever the transport reports, the publish changes
\* no connection state, retry deadline or first-connect flag, attempts no
\* handshake and restarts nothing
C25_FailedPublishAbsorbed ==
    [][LET published == \E op \in {"publishString", "publishInt",
                                   "publishBool"} :
                            calls' # <<>> /\ calls'[1].op = op
       IN  published =>
             /\ calls'[1].op = "publishString"
                   => (ret' = "true" <=> sent' > 0) /\ ret' \in {"true", "false"}
             /\ calls'[1].op # "publishString" => ret' = "none"
             /\ Len(calls') = 2 /\ calls'[2].op = "mqttPublish"
             /\ pc' = "run"
             /\ UNCHANGED <<mqttConnectionState, nextReconnect, firstConnect,
                            lastConnectedTs, mqttEnabled, devConnected,
                            devMqttConnected, connects, now>>]_vars

\* C25 witness: the transport has failed a publishString while the session
\* was up; false was returned and the session is still up
C25_Witness ==
    /\ PublishCall("publishString")
    /\ sent = 0
    /\ ret = "false"
    /\ mqttConnectionState = 2
    /\ devMqttConnected
    /\ pc = "run"

\* the presence publishes among the given calls
PresencePublishes(cs) ==
    SelectSeq(cs, LAMBDA c :
        /\ c.op = "mqttPublish"
        /\ c.a = mqttPresencePrefix \o mqtt_topic_presence)

\* C26: the presence slot holds one value.  A tick publishes at most one
\* presence string, and only the one the slot held when the tick began,
\* which is the last one staged; a tick that reaches the publish stage with
\* a string that is not empty publishes it and leaves the slot empty whether
\* or not the transport took it; a tick that does not reach the stage, and a
\* slot without a string, publish nothing and leave the slot as it was
C26_PresenceSlotLastWriteWins ==
    [][tick'.ran =>
         LET staged  == ~presenceCsv.null /\ presenceCsv.str # <<>>
             reached == ret' = "true" /\ mqttEnabled
             pubs    == PresencePublishes(calls')
         IN  /\ Len(pubs) <= 1
             /\ (staged /\ reached) =>
                   /\ Len(pubs) = 1
                   /\ pubs[1].v = presenceCsv.str
                   /\ presenceCsv' = NullCsv
             /\ ~(staged /\ reached) =>
                   /\ pubs = <<>>
                   /\ presenceCsv' = presenceCsv]_vars

\* C26 witness: a tick has published the staged string "y", the transport
\* has failed the publish, the failure was logged and the slot is empty
C26_Witness ==
    /\ tick.ran
    /\ sent = 0
    /\ Len(PresencePublishes(calls)) = 1
    /\ PresencePublishes(calls)[1].v = <<"y">>
    /\ \E i \in Positions("Log->println") : calls[i].v = <<"y">>
    /\ presenceCsv = NullCsv

\* the state topic of an input pin, as text
PinStateTopic(pin) ==
    lockPath \o <<"/", "g", "p", "i", "o", "/", "p", "i", "n", "_">>
             \o (IF pin = 13 THEN <<"1", "3">> ELSE <<"1", "4">>)
             \o <<"/", "s", "t", "a", "t", "e">>

\* the publishes of the given pin's state among the given calls
PinStatePublishes(cs, pin) ==
    SelectSeq(cs, LAMBDA c : c.op = "mqttPublish" /\ c.a = PinStateTopic(pin))

\* C27: for each pin, an edge records millis(), which is not 0, as the
\* pin's timestamp.  A tick that reaches the debounce stage when the
\* timestamp is not 0 and lies GPIO_DEBOUNCE_TIME or more in the past
\* publishes the pin's state exactly once, as "0" or "1", and sets the
\* timestamp to 0; any other tick publishes no state for the pin and leaves
\* its timestamp alone
C27_EdgesDebounced ==
    [][\A pin \in InputPins :
          /\ (~tick'.ran /\ gpioTs'[pin] # gpioTs[pin]) =>
                gpioTs'[pin] = now /\ gpioTs'[pin] # 0
          /\ tick'.ran =>
                LET due  == /\ ret' = "true" /\ mqttEnabled
                            /\ gpioTs[pin] # 0
                            /\ Wrap(now' - gpioTs[pin]) >= GPIO_DEBOUNCE_TIME
                    pubs == PinStatePublishes(calls', pin)
                IN  /\ due => /\ Len(pubs) = 1
                              /\ pubs[1].v \in {<<"0">>, <<"1">>}
                              /\ gpioTs'[pin] = 0
                    /\ ~due => /\ pubs = <<>>
                               /\ gpioTs'[pin] = gpioTs[pin]]_vars

\* C27 witness: a tick that ran GPIO_DEBOUNCE_TIME or more after the edge on
\* pin 13 has published the pin's state and cleared its timestamp, while the
\* younger edge on pin 14 is still pending
C27_Witness ==
    /\ tick.ran
    /\ Len(PinStatePublishes(calls, 13)) = 1
    /\ PinStatePublishes(calls, 13)[1].v = <<"1">>
    /\ gpioTs[13] = 0
    /\ PinStatePublishes(calls, 14) = <<>>
    /\ gpioTs[14] # 0
    /\ Wrap(now - gpioTs[14]) < GPIO_DEBOUNCE_TIME

\* C28 as claimed: with the broker address "" and the transport up, every
\* tick returns false and none restarts the device, whatever the network
\* timeout is
C28_AsClaimed ==
    (tick.ran /\ mqttEnabled /\ mqttBrokerAddr = <<>> /\ tick.devConnected) =>
        pc = "run" /\ ret = "false"

\* C29: with a broker configured and no watchdog, a tick that runs to its
\* return while the MQTT layer is down and millis() is past the retry
\* deadline that the last failed handshake set (its time + 5000 ms) attempts
\* a handshake; and when a handshake succeeds the connection state is 2 in
\* that same tick: at the tick's return, or when the next handshake of the
\* tick starts after the session was dropped again
C29_RetryAfterBackoff ==
    /\ (/\ tick.ran /\ pc = "run"
        /\ mqttEnabled /\ mqttBrokerAddr # <<>>
        /\ networkTimeout <= 0 /\ ~restartOnDisconnect
        /\ ~tick.devMqttConnected
        /\ tick.ts > tick.nextReconnect)
          => Has("mqttConnect")
    /\ \A i \in Successes :
          LET later == {j \in Positions("mqttConnect") : j > i}
          IN  IF later = {} THEN mqttConnectionState = 2 /\ ret = "true"
              ELSE calls[CHOOSE j \in later : \A k \in later : j <= k].st = 2

\* C29 witness: a handshake had failed, the tick came more than 5000 ms
\* after the failure, attempted a new handshake and ended connected
C29_Witness ==
    /\ tick.ran
    /\ tick.nextReconnect > 0
    /\ tick.ts > tick.nextReconnect
    /\ tick.ts < tick.nextReconnect + ReconnectBackoff
    /\ ~tick.devMqttConnected
    /\ Has("mqttConnect")
    /\ Successes # {}
    /\ mqttConnectionState = 2
    /\ ret = "true"

\* the network timeout has run out by the clock: MQTT is enabled and down,
\* the timeout is positive, and a tick that starts now finds it exceeded
TimeoutDue ==
    /\ pc = "run"
    /\ now <= MaxTime
    /\ mqttEnabled
    /\ ~devMqttConnected
    /\ networkTimeout > 0
    /\ now > UptimeGrace
    /\ Wrap(now - lastConnectedTs) > networkTimeout * 1000

\* ticks are not starved: update() is not put off forever while the
\* timeout is due
TicksGoOn == ([]<>~TimeoutDue) \/ ([]<><<tick'.ran>>_vars)

\* C30 as claimed: if ticks never cease, then once the timeout has run out
\* with MQTT down, and for as long as MQTT stays down, the device eventually
\* restarts with reason NetworkTimeoutWatchdog
C30_AsClaimed ==
    ([]<><<tick'.ran>>_vars) =>
        (TimeoutDue ~> (Restarted("NetworkTimeoutWatchdog") \/ devMqttConnected))

\* C30 (amended): if ticks go on, then once the timeout has run out with
\* MQTT down the device eventually restarts; with the transport up the
\* reason is NetworkTimeoutWatchdog, with the transport down the tick's
\* transport stage may restart it first with its own reason
C30_TimeoutEndsInRestart ==
    TicksGoOn =>
        /\ TimeoutDue ~> (pc = "restarted")
        /\ (TimeoutDue /\ devConnected) ~> Restarted("NetworkTimeoutWatchdog")

\* C30 witness: with the transport up and MQTT down a tick later than the
\* timeout has restarted the device with NetworkTimeoutWatchdog
C30_Witness ==
    /\ Restarted("NetworkTimeoutWatchdog")
    /\ tick.devConnected
    /\ ~tick.devMqttConnected
    /\ tick.ts > UptimeGrace
    /\ networkTimeout > 0

\* the request for an entity's discovery configuration recorded by the step
\* just taken: prefix, component, unique id, entity name, and the flag
HassRequest == calls[1]

\* <discoveryPrefix>/<component>/<uid>/<entityName>/config
HassConfigPath(request) ==
    request.a[1] \o <<"/">> \o request.a[2] \o <<"/">> \o request.a[3]
        \o <<"/">> \o request.a[4] \o <<"/", "c", "o", "n", "f", "i", "g">>

\* C31: a step that publishes the discovery configuration of a gated
\* entity makes no publish when the discovery prefix is empty; otherwise it
\* makes exactly one publish, at <prefix>/<component>/<uid>/<name>/config,
\* of the document when the flag is set and of the empty payload when not
C31_GatedEntityPublishedOrTombstoned ==
    (calls # <<>> /\ HassRequest.op = "publishHASSConfig") =>
        IF HassRequest.a[1] = <<>> THEN Len(calls) = 1
        ELSE /\ Len(calls) = 2
             /\ calls[2].op = "mqttPublish"
             /\ calls[2].a = HassConfigPath(HassRequest)
             /\ HassRequest.v => calls[2].v # <<>>
             /\ ~HassRequest.v => calls[2].v = <<>>

\* C31 witness: with a discovery prefix the disabled branch has published
\* the empty payload at the entity's config path
C31_Witness ==
    /\ calls # <<>>
    /\ HassRequest.op = "publishHASSConfig"
    /\ HassRequest.a[1] # <<>>
    /\ ~HassRequest.v
    /\ Len(calls) = 2
    /\ calls[2].v = <<>>

\* the calls made while a handshake is in progress: the connect request,
\* and the pumps, connect replies and keep-alive callbacks of the wait loop
HandshakeCalls ==
    {i \in 1..Len(calls) :
        \/ calls[i].op \in {"mqttConnect", "keepAlive", "onMqttConnect"}
        \/ calls[i].op = "update" /\ calls[i].depth = 1}

\* C32 as claimed: the connection state reads 0 at every call made while a
\* handshake is in progress; it reads 1 only at the handler installation,
\* the subscriptions and the publishes that follow a handshake success, and
\* never between steps; it reads 2 at every reconnect listener and from
\* there on until reconnect() is called again
C32_AsClaimed ==
    /\ \A i \in HandshakeCalls : calls[i].st = 0
    /\ mqttConnectionState # 1
    /\ \A i \in 1..Len(calls) :
          calls[i].st = 1 =>
             /\ calls[i].op \in {"mqttOnMessage", "mqttSubscribe", "mqttPublish"}
             /\ calls[i].depth = 1
             /\ \E j \in Successes : j <= i
    /\ \A i \in Positions("callback") :
          /\ calls[i].st = 2
          /\ \A j \in (i + 1)..Len(calls) : calls[j].st = 2
          /\ mqttConnectionState = 2

\* the call that follows the wait loop of the handshake started at place m:
\* the handler installation of a success or the error print of a failure
WaitEnd(m) ==
    LET ends == {e \in (m + 1)..Len(calls) :
                    calls[e].op \in {"mqttOnMessage", "printError"}}
    IN  IF ends = {} THEN 0 ELSE CHOOSE e \in ends : \A o \in ends : e <= o

\* the polls of the wait loop of the handshake started at place m: the
\* pumps of the transport
Polls(m) == {p \in (m + 1)..(WaitEnd(m) - 1) : calls[p].op = "update"}

\* a reply of the broker has arrived between the connect request at m and
\* the call at place p
ReplyBy(m, p) ==
    \E r \in (m + 1)..p : calls[r].op \in {"onMqttConnect", "onMqttDisconnect"}

\* the last call of the poll at place p of the handshake started at m
PollEnd(m, p) ==
    LET later == {q \in Polls(m) : q > p}
    IN  IF later = {} THEN WaitEnd(m) - 1
        ELSE (CHOOSE q \in later : \A o \in later : q <= o) - 1

\* C33: the wait loop of every handshake ends; it polls at least once, and
\* it goes on after a poll exactly when no reply has arrived by the end of
\* the poll and less than 60000 ms have passed since the connect request;
\* every poll pumps the transport once and then calls the keep-alive
\* callback once if one is set; the handshake counts as a success only if
\* the acknowledgement has arrived
C33_WaitLoopEnds ==
    \A m \in Positions("mqttConnect") :
        /\ WaitEnd(m) # 0
        /\ Polls(m) # {}
        /\ \A p \in Polls(m) :
              /\ (PollEnd(m, p) < WaitEnd(m) - 1) <=>
                    (~ReplyBy(m, PollEnd(m, p))
                        /\ calls[p].t < calls[m].t + HandshakeTimeout)
              /\ Cardinality({k \in p..PollEnd(m, p) :
                                 calls[k].op = "keepAlive"}) =
                    (IF keepAliveCallback THEN 1 ELSE 0)
              /\ keepAliveCallback => calls[PollEnd(m, p)].op = "keepAlive"
        /\ calls[WaitEnd(m)].op = "mqttOnMessage" =>
              \E r \in (m + 1)..WaitEnd(m) : calls[r].op = "onMqttConnect"

\* C33 witness: a handshake without an answer has ended 60000 ms after the
\* connect request, after more than one poll, with the keep-alive callback
\* called in every poll
C33_Witness ==
    \E m \in Positions("mqttConnect") :
        /\ WaitEnd(m) # 0
        /\ calls[WaitEnd(m)].op = "printError"
        /\ ~ReplyBy(m, WaitEnd(m))
        /\ calls[WaitEnd(m)].t >= calls[m].t + HandshakeTimeout
        /\ Cardinality(Polls(m)) > 1
        /\ keepAliveCallback

\* the RSSI publishes among the given calls
RssiPublishes(cs) ==
    {p \in 1..Len(cs) :
        /\ cs[p].op = "mqttPublish"
        /\ cs[p].a = buildMqttPath(<<maintenancePathPrefix,
                                     mqtt_topic_wifi_rssi>>)}

\* C34 as claimed: a step publishes the RSSI only in a tick, at most once,
\* a value other than 127 and other than the stored comparison value, with
\* more than the interval passed since the last RSSI stage that ran; and
\* after the publish the stored comparison value is the value published
C34_AsClaimed ==
    [][\A p \in RssiPublishes(calls') :
          /\ tick'.ran
          /\ Cardinality(RssiPublishes(calls')) = 1
          /\ calls'[p].v # itoa(127)
          /\ rssiPublishInterval > 0
          /\ Wrap(tick'.ts - lastRssiTs) > rssiPublishInterval
          /\ calls'[p].v # itoa(lastRssi)
          /\ calls'[p].v = itoa(lastRssi')]_vars

\* C35: with MQTT enabled, a tick that has returned has returned true if the
\* connection state is 2 and false if not; it has returned false exactly
\* when it called reconnect() and the connection state is not 2; the
\* last-connected timestamp has changed only if it returned true, and is
\* then the time at which the tick began
C35_ReturnTellsConnected ==
    (tick.ran /\ mqttEnabled /\ pc = "run") =>
        /\ ret \in {"true", "false"}
        /\ (ret = "true") <=> (mqttConnectionState = 2)
        /\ (ret = "false") <=>
              (Has("Network::reconnect") /\ mqttConnectionState # 2)
        /\ lastConnectedTs # tick.lastConnectedTs => ret = "true"
        /\ ret = "true" => lastConnectedTs = tick.ts

\* C35 witness: a tick that called reconnect() has returned false after a
\* handshake that succeeded and one that failed, with the timestamp
\* unchanged
C35_Witness ==
    /\ tick.ran
    /\ mqttEnabled
    /\ pc = "run"
    /\ ret = "false"
    /\ Successes # {}
    /\ Has("printError")
    /\ mqttConnectionState = 0
    /\ lastConnectedTs = tick.lastConnectedTs

\* C36: a tick that finds MQTT disabled pumps the transport, returns true
\* and does nothing else: it makes no other call (no reconnect of the
\* transport, no handshake, no publish, no restart), and the connection
\* state, the retry deadline and the last-connected timestamp stay as they
\* were, as does everything else but the clock reading of the tick
C36_DisabledTickOnlyPumps ==
    [][(~mqttEnabled /\ tick'.ran) =>
          /\ ret' = "true"
          /\ pc' = "run"
          /\ Len(calls') = 1
          /\ calls'[1].op = "update"
          /\ calls'[1].depth = 0
          /\ ~mqttEnabled'
          /\ UNCHANGED <<now, restartReason, mqttConnectionState,
                         nextReconnect, lastConnectedTs, firstConnect,
                         devConnected, devMqttConnected, connects,
                         WiFi_fallbackDetect, ignoreSubscriptionsTs,
                         presenceCsv, gpioTs, lastRssi, lastRssiTs>>]_vars

\* C36 witness: with MQTT disabled, the transport down and the
\* restart-on-disconnect watchdog due, a tick has returned true
C36_Witness ==
    /\ ~mqttEnabled
    /\ tick.ran
    /\ ~tick.devConnected
    /\ restartOnDisconnect
    /\ tick.ts > UptimeGrace
    /\ ret = "true"
    /\ pc = "run"

\* the automatic restarts are disabled: the timeout is 0, which
\* initialize() never leaves, and the restart-on-disconnect watchdog is off
AutoRestartsDisabled == networkTimeout = 0 /\ ~restartOnDisconnect

\* C37: disableAutoRestarts() leaves the automatic restarts disabled; they
\* stay disabled for as long as the object lives (until the device has been
\* restarted); and a tick that begins with them disabled does not restart
\* the device with reason NetworkTimeoutWatchdog or
\* RestartOnDisconnectWatchdog
C37_NoWatchdogRestartWhenDisabled ==
    [][/\ (calls' # <<>> /\ calls'[1].op = "disableAutoRestarts") =>
             AutoRestartsDisabled'
       /\ (AutoRestartsDisabled /\ pc = "run") => AutoRestartsDisabled'
       /\ (AutoRestartsDisabled /\ tick'.ran) =>
             ~(pc' = "restarted" /\
               restartReason' \in {"NetworkTimeoutWatchdog",
                                   "RestartOnDisconnectWatchdog"})]_vars

\* C37 witness: with both watchdogs persisted on, after disableAutoRestarts()
\* a tick found the transport down and MQTT down later than the timeout and
\* the grace period, and did not restart the device for it
C37_Witness ==
    /\ AutoRestartsDisabled
    /\ preferences.network_timeout > 0
    /\ preferences.restart_on_disconnect
    /\ tick.ran
    /\ ~tick.devConnected
    /\ ~tick.devMqttConnected
    /\ mqttEnabled
    /\ tick.ts > UptimeGrace
    /\ Wrap(tick.ts - tick.lastConnectedTs) > preferences.network_timeout * 1000
    /\ pc = "run"

\* subscribe(prefix, path) has just run
JustSubscribed == calls # <<>> /\ calls[1].op = "subscribe"

JustInitTopic == calls # <<>> /\ calls[1].op = "initTopic"

\* the value the Init Topic Map m holds for path p, <<>> for none
InitValueAt(m, p) ==
    IF \E k \in 1..Len(m) : m[k].path = p
    THEN m[CHOOSE k \in 1..Len(m) : m[k].path = p].value
    ELSE <<>>

InitPaths(m) == {m[k].path : k \in 1..Len(m)}

\* the publishes of the tick at path p
PublishesAt(p) == {i \in Positions("mqttPublish") : calls[i].a = p}

\* C39: the Init Topic Map never holds a path twice; initTopic puts its value
\* at its path, in place of the value that was there, and touches no other
\* entry and sends nothing; the tick of the first handshake success of the
\* boot publishes every path of the map exactly once, with the value the map
\* holds, and clears the first-connect flag whatever the transport reports
\* for the publishes; a tick after the first success publishes no path of
\* the map
C39_InitTopicMapReplay ==
    [][/\ \A i, j \in 1..Len(initTopics') :
             initTopics'[i].path = initTopics'[j].path => i = j
       /\ JustInitTopic' =>
             /\ Len(calls') = 1
             /\ InitValueAt(initTopics', calls'[1].a) = calls'[1].v
             /\ InitPaths(initTopics') = InitPaths(initTopics) \cup {calls'[1].a}
             /\ \A p \in InitPaths(initTopics) \ {calls'[1].a} :
                   InitValueAt(initTopics', p) = InitValueAt(initTopics, p)
             /\ UNCHANGED <<firstConnect, connects, devMqttConnected>>
       /\ (tick'.ran /\ firstConnect /\ Successes' # {}) =>
             /\ ~firstConnect'
             /\ \A p \in InitPaths(initTopics) :
                   /\ Cardinality(PublishesAt(p)') = 1
                   /\ \A i \in PublishesAt(p)' :
                         calls'[i].v = InitValueAt(initTopics, p)
       /\ (tick'.ran /\ ~firstConnect) =>
             /\ ~firstConnect'
             /\ \A p \in InitPaths(initTopics) : PublishesAt(p)' = {}
       /\ tick'.ran => initTopics' = initTopics]_vars

\* C39 witness: the first handshake success of the boot has replayed a map
\* of two paths, the transport reported failure for every publish of the
\* tick, and the first-connect flag is cleared
C39_Witness ==
    /\ tick.ran
    /\ tick.connects = 0
    /\ Successes # {}
    /\ sent = 0
    /\ Len(initTopics) = 2
    /\ \A k \in 1..2 : Cardinality(PublishesAt(initTopics[k].path)) = 1
    /\ ~firstConnect

\* the first call of Network::reconnect of the tick
ReconnectEntry ==
    CHOOSE r \in Positions("Network::reconnect") :
        \A o \in Positions("Network::reconnect") : r <= o

\* C40 as claimed: whether or not millis() has wrapped since a deadline was
\* set, a handshake that follows a failed one comes more than 5000 ms after
\* the failure, and a reconnect() entered more than 5000 ms after the retry
\* deadline was set makes an attempt if a broker is configured; the wait
\* loop of a handshake polls, and goes on after a poll exactly when no reply
\* has arrived and less than 60000 ms have passed since the connect
\* request; and a message handled less than 2000 ms after the last
\* handshake success reaches no receiver
C40_AsClaimed ==
    /\ \A f \in Positions("printError"), m \in Positions("mqttConnect") :
          f < m => Wrap(calls[m].t - calls[f].t) > ReconnectBackoff
    /\ ( /\ ReconnectCalled /\ Has("Network::reconnect")
         /\ mqttBrokerAddr # <<>>
         /\ Wrap(calls[ReconnectEntry].t - tick.nextReconnect + ReconnectBackoff)
               > ReconnectBackoff )
          => Has("mqttConnect")
    /\ \A m \in Positions("mqttConnect") :
          /\ Polls(m) # {}
          /\ \A p \in Polls(m) :
                (PollEnd(m, p) < WaitEnd(m) - 1) <=>
                    (~ReplyBy(m, PollEnd(m, p))
                        /\ Wrap(calls[p].t - calls[m].t) < HandshakeTimeout)
    /\ (lastMsg.topic # <<>> /\ Wrap(lastMsg.at - lastMsg.opened) < QuietWindow)
          => lastMsg.receivers = <<>>

====
